---- MODULE Spec2Model ----
(***************************************************************************)
(* Model of the tryo single-task engine (src/src/core/tryo.ts): breaker    *)
(* admission, the attempt loop of executeInternal/runAttempt, the retry    *)
(* sleep, error normalisation and the packaging of the Result.             *)
(***************************************************************************)
EXTENDS Integers, Sequences, FiniteSets, Bags, TLC

\* ------------------------------------------------------------------ bounds
MaxRetriesBound == 2
MaxCalls == 2
MaxTime == 2
MaxBreakerCalls == 4
MaxInFlight == 2
MaxClock == 2
MaxTasks == 3
MaxConcurrency == 2
\* user rules in one engine's rule list
MaxRules == 2
\* a fibonacci strategy's base, in milliseconds
MaxBase == 3
\* a fibonacci strategy's maxDelay, in milliseconds
MaxDelayCap == 8
\* the number of the attempt a delay is computed after
MaxAttemptNumber == 5

\* ------------------------------------------------------------ error values
\* A TypedError is modelled by the two fields the engine branches on.
TypedErr(c, r) == [code |-> c, retryable |-> r]
\* JavaScript null (Result.error of a success, lastError before a failure).
Null == [code |-> "null", retryable |-> FALSE]

\* Raw thrown values: what a task, sleep or withTimeout may reject with.
RawValue(k, n, c, r, s) ==
  [kind |-> k, name |-> n, code |-> c, retryable |-> r, status |-> s, network |-> FALSE]
\* new DOMException('Aborted', 'AbortError')
AbortDOMException == RawValue("Error", "AbortError", "", FALSE, 0)
\* new Error('fail')
PlainError == RawValue("Error", "Error", "", FALSE, 0)
\* new HttpError('Not found', 404): a TypedError, retryable = false
Http404 == RawValue("TypedError", "HttpError", "HTTP", FALSE, 404)
\* new AbortedError().withRetryable(true): a TypedError with code ABORTED
AbortedRetryable == RawValue("TypedError", "AbortedError", "ABORTED", TRUE, 0)
\* new TimeoutError(asMilliseconds(timeout)): what the timeout callback builds
TimeoutErrorTyped == RawValue("TypedError", "TimeoutError", "TIMEOUT", TRUE, 0)

\* the string 'custom', thrown as it is
StringCustom == RawValue("string", "custom", "", FALSE, 0)
\* const e = new Error('timeout'); e.name = 'TimeoutError'
NamedTimeout == RawValue("Error", "TimeoutError", "", FALSE, 0)

\* Values a task may reject with (or throw synchronously).
TaskThrows == {AbortDOMException, PlainError, Http404, AbortedRetryable}
\* Values a task may return.
Values == {"v1", "v2"}

\* ------------------------------------------------------------- normaliser
\* BuiltinRules.typed
RuleTyped(raw) ==
  IF raw.kind = "TypedError" THEN TypedErr(raw.code, raw.retryable) ELSE Null
\* BuiltinRules.abort
RuleAbort(raw) ==
  IF raw.kind \in {"Error", "TypedError"} /\ raw.name = "AbortError"
  THEN TypedErr("ABORTED", FALSE) ELSE Null
\* BuiltinRules.timeout (retryable is left to the TypedError default, true)
RuleTimeout(raw) ==
  IF raw.kind \in {"Error", "TypedError"} /\ raw.name = "TimeoutError"
  THEN TypedErr("TIMEOUT", TRUE) ELSE Null
\* BuiltinRules.http
RuleHttp(raw) ==
  IF raw.kind # "string" /\ raw.status >= 400
  THEN TypedErr("HTTP", raw.status >= 500 \/ raw.status = 429) ELSE Null
\* BuiltinRules.network
RuleNetwork(raw) ==
  IF raw.network THEN TypedErr("NETWORK", TRUE) ELSE Null
\* BuiltinRules.unknown
RuleUnknown(raw) ==
  IF raw.kind = "Error" THEN TypedErr("UNKNOWN", TRUE) ELSE Null
\* A user rule: when(err.name === 'AbortError').toCode('CANCELLED').with(...)
RuleUserCancelled(raw) ==
  IF raw.kind \in {"Error", "TypedError"} /\ raw.name = "AbortError"
  THEN TypedErr("CANCELLED", TRUE) ELSE Null
\* A user rule: when(e === 'custom').toError(() => ({code: 'CUSTOM_ERROR', ...}))
RuleUserCustom(raw) ==
  IF raw.kind = "string" /\ raw.name = "custom"
  THEN TypedErr("CUSTOM_ERROR", TRUE) ELSE Null
\* A user rule: when(e instanceof Error).toCode('WRAPPED').with(...); a
\* TypedError is an Error
RuleUserWrapped(raw) ==
  IF raw.kind \in {"Error", "TypedError"}
  THEN TypedErr("WRAPPED", TRUE) ELSE Null
\* Two user rules of one code: when(e === 'a').toCode('DUPLICATE').with(...)
\* and when(e === 'b').toCode('DUPLICATE').with(...)
RuleDupA(raw) ==
  IF raw.kind = "string" /\ raw.name = "a"
  THEN TypedErr("DUPLICATE", TRUE) ELSE Null
RuleDupB(raw) ==
  IF raw.kind = "string" /\ raw.name = "b"
  THEN TypedErr("DUPLICATE", TRUE) ELSE Null

ApplyRule(rule, raw) ==
  CASE rule = "typed" -> RuleTyped(raw)
    [] rule = "abort" -> RuleAbort(raw)
    [] rule = "timeout" -> RuleTimeout(raw)
    [] rule = "http" -> RuleHttp(raw)
    [] rule = "network" -> RuleNetwork(raw)
    [] rule = "unknown" -> RuleUnknown(raw)
    [] rule = "userCancelled" -> RuleUserCancelled(raw)
    [] rule = "userCustom" -> RuleUserCustom(raw)
    [] rule = "userWrapped" -> RuleUserWrapped(raw)
    [] rule = "dupA" -> RuleDupA(raw)
    [] rule = "dupB" -> RuleDupB(raw)

\* builtInRules, in their declared order
defaultRules == <<"typed", "abort", "timeout", "http", "network", "unknown">>

\* createFallbackNormalizer(UnknownError)
createFallbackNormalizer(raw) ==
  IF raw.kind = "TypedError" THEN TypedErr(raw.code, raw.retryable)
  ELSE TypedErr("UNKNOWN", TRUE)

\* createErrorNormalizer(rules, fallback): first non-null rule result wins
RECURSIVE createErrorNormalizer(_, _)
createErrorNormalizer(rules, raw) ==
  IF rules = <<>> THEN createFallbackNormalizer(raw)
  ELSE IF ApplyRule(Head(rules), raw) # Null THEN ApplyRule(Head(rules), raw)
  ELSE createErrorNormalizer(Tail(rules), raw)

\* A caller-supplied toError: wraps whatever was thrown in a CustomError
\* (code CUSTOM, retryable false).
CustomToError(raw) == TypedErr("CUSTOM", FALSE)

\* buildNormalizer(opts)
buildNormalizer(opts, raw) ==
  IF opts.toError THEN CustomToError(raw)
  ELSE createErrorNormalizer(
         IF opts.rulesMode = "replace" THEN opts.rules ELSE opts.rules \o defaultRules,
         raw)

\* errorHandling.mapError ? errorHandling.mapError(e) : e
\* The modelled mapper rewrites the code and keeps the retryable flag.
MapError(opts, e) ==
  IF opts.mapError THEN TypedErr("MAPPED", e.retryable) ELSE e

\* normalizer followed by the optional mapError, as in both catch sites
NormalizeAndMap(opts, raw) == MapError(opts, buildNormalizer(opts, raw))

\* ---------------------------------------------------------- configuration
NormalizerOptions ==
  { [toError |-> FALSE, rulesMode |-> "extend", rules |-> <<>>],
    [toError |-> FALSE, rulesMode |-> "extend", rules |-> <<"userCancelled">>],
    [toError |-> FALSE, rulesMode |-> "replace", rules |-> <<>>],
    [toError |-> TRUE, rulesMode |-> "extend", rules |-> <<>>] }

BreakerConfigs ==
  { [failureThreshold |-> 1, resetTimeout |-> 1, halfOpenRequests |-> 1],
    [failureThreshold |-> 2, resetTimeout |-> 2, halfOpenRequests |-> 1] }

\* circuitBreaker option: absent, or one of BreakerConfigs
BreakerOptions ==
  { [circuitBreaker |-> TRUE, breakerConfig |-> bc] : bc \in BreakerConfigs }
  \cup { [circuitBreaker |-> FALSE,
          breakerConfig |-> [failureThreshold |-> 0, resetTimeout |-> 0,
                             halfOpenRequests |-> 0]] }

\* TryoOptions the engine is constructed with
Configs ==
  { [maxRetries |-> m, timeout |-> t, ignoreAbort |-> ia, shouldRetry |-> sr,
     toError |-> n.toError, rulesMode |-> n.rulesMode, rules |-> n.rules,
     mapError |-> me, circuitBreaker |-> b.circuitBreaker,
     breakerConfig |-> b.breakerConfig] :
       m \in 0..MaxRetriesBound, t \in BOOLEAN, ia \in BOOLEAN, sr \in BOOLEAN,
       n \in NormalizerOptions, me \in BOOLEAN, b \in BreakerOptions }

\* ------------------------------------------------------------------ state
VARIABLES
  config,           \* the engine's options (fixed at construction)
  pc,               \* position of the current run call
  calls,            \* run calls issued so far
  signal,           \* caller's AbortSignal: "none" | "live" | "aborted"
  attempt,          \* runAttempt's loop variable
  totalAttempts,    \* executeInternal.totalAttempts
  lastError,        \* executeInternal.lastError
  retryHistory,     \* executeInternal.retryHistory
  taskCalls,        \* invocations of the task in this call
  attemptLog,       \* per finished attempt: its error, whether the timeout
                    \* ended it, and the shouldRetry verdict
  returned,         \* value the task returned to the engine, or "null"
  cancelledAt,      \* where the caller's signal fired in this call
  sleepRejected,    \* a retry sleep of this call rejected with AbortError
  result,           \* the Result run returned
  hooks,            \* how often each hook has fired in this call
  breaker,          \* CircuitBreaker.state
  lastCircuitState, \* TryoEngine.lastCircuitState
  now,              \* Date.now()
  timerDue,         \* the current attempt's timeout timer has reached its deadline
  listeners,        \* the abort listeners the engine has attached, and the
                    \* composite signals whose cleanup has not run
  suspended,        \* the run calls suspended at an await: a bag of records
                    \* holding each call's position and locals
  lastReturn,       \* what the run call that returned last returned
  overlap,          \* the caller issues run calls without awaiting the previous one
  unreported,       \* changes of the breaker's state not yet passed to
                    \* onCircuitStateChange, oldest first
  misreported,      \* onCircuitStateChange was called with a pair that is not
                    \* the oldest unreported change
  reported,         \* the last state passed to onCircuitStateChange as `to`,
                    \* and whether every `from` so far was the `to` before it
  failuresSince,    \* counted failures recorded since the last recorded
                    \* success, kept for calls made one after another
  admittedInEpisode, \* calls admitted since the breaker last became half-open
  batch,            \* all(): where it stands, the shared counter idx
  workers,          \* all(): each worker's position and the index it awaits
  slots,            \* all(): the run call made for each task
  out,              \* all(): the result array
  untaken,          \* the indices no worker had taken when the signal fired
  runs,             \* how often each task index has been passed to run
  twin,             \* two engines fed the same inputs, one with throwing hooks
  throwing,         \* the hooks and logger callbacks that throw
  input,            \* the arguments of a function applied on its own
  output            \* what it returned or threw, once applied

vars == <<config, pc, calls, signal, attempt, totalAttempts, lastError,
          retryHistory, taskCalls, attemptLog, returned, cancelledAt,
          sleepRejected, result,
          hooks, breaker, lastCircuitState, now, timerDue, listeners,
          suspended, lastReturn, overlap, unreported, misreported, reported,
          failuresSince,
          admittedInEpisode, batch, workers, slots, out, untaken, runs,
          twin, throwing, input, output>>

\* the variables of one sequential run call
runVars == <<pc, signal, attempt, totalAttempts, lastError, retryHistory,
             taskCalls, attemptLog, returned, cancelledAt, sleepRejected,
             result, hooks, timerDue, listeners>>

\* the variables used only for overlapping run calls on a breaker
breakerVars == <<suspended, lastReturn, overlap, unreported, misreported,
                 reported,
                 failuresSince, admittedInEpisode>>

\* what a run call keeps for itself, the caller's signal aside
callVars == <<pc, attempt, totalAttempts, lastError, retryHistory, taskCalls,
              attemptLog, returned, cancelledAt, sleepRejected, result, hooks,
              timerDue, listeners>>

\* the variables of a batch
batchVars == <<batch, workers, slots, out, untaken, runs>>

\* the variables of the comparison of two engines
hookVars == <<twin, throwing>>

\* the variables of a function applied on its own
pureVars == <<input, output>>

\* the variables the specifications after the first two add
restVars == <<batchVars, hookVars, pureVars>>

\* the variables used only when run calls overlap
concurrentVars == <<breakerVars, restVars>>

\* no state change has been passed to onCircuitStateChange: the breaker
\* starts closed
NoReport == [to |-> "closed", chained |-> TRUE]

NoResult ==
  [type |-> "none", ok |-> FALSE, data |-> "null", error |-> Null,
   totalAttempts |-> 0, totalRetries |-> 0, retryHistory |-> <<>>]

NoHooks ==
  [onSuccess |-> 0, onError |-> 0, onAbort |-> 0, onRetry |-> 0, onFinally |-> 0]

\* --------------------------------------------------------- circuit breaker
NoTime == -1

\* CircuitBreaker constructor
NewBreaker ==
  [state |-> "closed", failureCount |-> 0, halfOpenCount |-> 0,
   lastFailureTime |-> NoTime, nextAttemptTime |-> NoTime]

\* CircuitBreaker.updateStateIfNeeded at time t
updateStateIfNeeded(b, t) ==
  IF b.state = "open" /\ b.nextAttemptTime # NoTime /\ t >= b.nextAttemptTime
  THEN [b EXCEPT !.state = "half-open", !.halfOpenCount = 0]
  ELSE b

\* variant: the probe budget is compared with > instead of >=
canExecuteOneMore(b, bc, t) ==
  LET u == updateStateIfNeeded(b, t) IN
  IF u.state = "open" THEN [allowed |-> FALSE, breaker |-> u]
  ELSE IF u.state = "half-open"
  THEN IF u.halfOpenCount > bc.halfOpenRequests
       THEN [allowed |-> FALSE, breaker |-> u]
       ELSE [allowed |-> TRUE,
             breaker |-> [u EXCEPT !.halfOpenCount = u.halfOpenCount + 1]]
  ELSE [allowed |-> TRUE, breaker |-> u]
\* CircuitBreaker.canExecute at time t: the verdict and the state it leaves
canExecute(b, bc, t) ==
  LET u == updateStateIfNeeded(b, t) IN
  IF u.state = "open" THEN [allowed |-> FALSE, breaker |-> u]
  ELSE IF u.state = "half-open"
  THEN IF u.halfOpenCount >= bc.halfOpenRequests
       THEN [allowed |-> FALSE, breaker |-> u]
       ELSE [allowed |-> TRUE,
             breaker |-> [u EXCEPT !.halfOpenCount = u.halfOpenCount + 1]]
  ELSE [allowed |-> TRUE, breaker |-> u]

\* variant: closing from half-open keeps the failure count
recordSuccessKeepsCount(b) ==
  CASE b.state = "closed" -> [b EXCEPT !.failureCount = 0]
    [] b.state = "half-open" -> [b EXCEPT !.state = "closed", !.halfOpenCount = 0]
    [] b.state = "open" -> b
\* CircuitBreaker.recordSuccess
recordSuccess(b) ==
  CASE b.state = "closed" -> [b EXCEPT !.failureCount = 0]
    [] b.state = "half-open" -> NewBreaker
    [] b.state = "open" -> b

\* variant: reopening from half-open keeps the probe count
recordFailureKeepsProbes(b, bc, t) ==
  CASE b.state = "closed" ->
         IF b.failureCount + 1 >= bc.failureThreshold
         THEN [state |-> "open", failureCount |-> b.failureCount + 1,
               halfOpenCount |-> 0, lastFailureTime |-> t,
               nextAttemptTime |-> t + bc.resetTimeout]
         ELSE [b EXCEPT !.failureCount = b.failureCount + 1,
                        !.lastFailureTime = t]
    [] b.state = "half-open" ->
         [state |-> "open", failureCount |-> b.failureCount + 1,
          halfOpenCount |-> b.halfOpenCount, lastFailureTime |-> t,
          nextAttemptTime |-> t + bc.resetTimeout]
    [] b.state = "open" ->
         [b EXCEPT !.lastFailureTime = t,
                   !.nextAttemptTime = t + bc.resetTimeout]
\* variant: the threshold has to be exceeded, not reached
recordFailureLate(b, bc, t) ==
  CASE b.state = "closed" ->
         IF b.failureCount + 1 > bc.failureThreshold
         THEN [state |-> "open", failureCount |-> b.failureCount + 1,
               halfOpenCount |-> 0, lastFailureTime |-> t,
               nextAttemptTime |-> t + bc.resetTimeout]
         ELSE [b EXCEPT !.failureCount = b.failureCount + 1,
                        !.lastFailureTime = t]
    [] b.state = "half-open" ->
         [state |-> "open", failureCount |-> b.failureCount + 1,
          halfOpenCount |-> 0, lastFailureTime |-> t,
          nextAttemptTime |-> t + bc.resetTimeout]
    [] b.state = "open" ->
         [b EXCEPT !.lastFailureTime = t,
                   !.nextAttemptTime = t + bc.resetTimeout]
\* CircuitBreaker.recordFailure at time t (no shouldCountAsFailure configured)
recordFailure(b, bc, t) ==
  CASE b.state = "closed" ->
         IF b.failureCount + 1 >= bc.failureThreshold
         THEN [state |-> "open", failureCount |-> b.failureCount + 1,
               halfOpenCount |-> 0, lastFailureTime |-> t,
               nextAttemptTime |-> t + bc.resetTimeout]
         ELSE [b EXCEPT !.failureCount = b.failureCount + 1,
                        !.lastFailureTime = t]
    [] b.state = "half-open" ->
         [state |-> "open", failureCount |-> b.failureCount + 1,
          halfOpenCount |-> 0, lastFailureTime |-> t,
          nextAttemptTime |-> t + bc.resetTimeout]
    [] b.state = "open" ->
         [b EXCEPT !.lastFailureTime = t,
                   !.nextAttemptTime = t + bc.resetTimeout]

\* ----------------------------------------------------------------- results
\* variant: every attempt is counted as a retry
buildMetricsRetriesNoFirst(ta) == ta
\* buildMetrics: totalRetries is derived from totalAttempts
buildMetricsRetries(ta) == IF ta > 0 THEN ta - 1 ELSE 0

\* the Result returned when the breaker rejects the call
CircuitOpenResult ==
  [type |-> "failure", ok |-> FALSE, data |-> "null",
   error |-> TypedErr("CIRCUIT_OPEN", FALSE),
   totalAttempts |-> 0, totalRetries |-> 0, retryHistory |-> <<>>]

\* the Result of the already-cancelled short-circuit
EarlyAbortResult(mapped) ==
  [type |-> "aborted", ok |-> FALSE, data |-> "null", error |-> mapped,
   totalAttempts |-> 0, totalRetries |-> 0, retryHistory |-> <<>>]

\* the Result of executeInternal's success path
SuccessResult(data, ta, rh) ==
  [type |-> "success", ok |-> TRUE, data |-> data, error |-> Null,
   totalAttempts |-> ta, totalRetries |-> buildMetricsRetries(ta),
   retryHistory |-> rh]

\* finalError = lastError ?? normalizer(err)
FinalError(le, err) == IF le # Null THEN le ELSE buildNormalizer(config, err)

\* variant: a final TIMEOUT error is classed as a plain failure
ResultKindNoTimeout(e) ==
  IF e.code = "ABORTED" THEN "aborted" ELSE "failure"
\* kind, derived from the final error's code
ResultKind(e) ==
  IF e.code = "TIMEOUT" THEN "timeout"
  ELSE IF e.code = "ABORTED" THEN "aborted" ELSE "failure"

\* variant: ok is derived from the kind instead of being false
FailureResultOkByKind(finalError, ta, rh) ==
  [type |-> ResultKind(finalError),
   ok |-> ResultKind(finalError) # "failure", data |-> "null",
   error |-> finalError,
   totalAttempts |-> ta, totalRetries |-> buildMetricsRetries(ta),
   retryHistory |-> rh]
\* the Result of executeInternal's outer catch
FailureResult(finalError, ta, rh) ==
  [type |-> ResultKind(finalError), ok |-> FALSE, data |-> "null",
   error |-> finalError,
   totalAttempts |-> ta, totalRetries |-> buildMetricsRetries(ta),
   retryHistory |-> rh]

\* --------------------------------------------------- retry decision, sleep
\* variant: an error flagged retryable is not treated as an abort
IsAbortedUnlessRetryable(e) == e.code = "ABORTED" /\ ~e.retryable
\* mapped.code === 'ABORTED'
IsAborted(e) == e.code = "ABORTED"

\* variant: off by one, one retry too many
WithinRetryBudgetPlusOne(a, maxRetries) == a <= maxRetries + 1
\* attempt <= Number(maxRetries)
WithinRetryBudget(a, maxRetries) == a <= maxRetries

\* !shouldRetry || shouldRetry(attempt, mapped, ctx)
ShouldRetryAllows(supplied, verdict) == ~supplied \/ verdict

\* variant: sleep does not look at the signal before arming its timer
SleepNeverRejectsAtOnce(sig) == FALSE
\* sleep(ms, signal): rejects at once when the signal is already aborted
SleepRejectsAtOnce(sig) == sig = "aborted"

\* variant: the task's promise is awaited bare, whatever the options say
UsesTimeoutNever(cfg) == FALSE
\* timeout ? await withTimeout(p, timeout, ...) : await p
UsesTimeout(cfg) == cfg.timeout

\* withTimeout is called anew in every pass of the attempt loop, so every
\* attempt starts with a timer that has its whole delay ahead of it
ArmTimeout == FALSE

\* nothing has been returned by a run call yet
NoReturn == [allowed |-> FALSE, invoked |-> FALSE, result |-> NoResult]

\* ------------------------------------------------------------------ actions
\* all() has not been called
BatchVarsAtRest ==
  /\ batch = [phase |-> "idle", idx |-> 0]
  /\ workers = <<>>
  /\ slots = <<>>
  /\ out = <<>>
  /\ untaken = [fired |-> FALSE, indices |-> {}]
  /\ runs = <<>>

\* no pair of engines is compared
HookVarsAtRest ==
  /\ twin = <<>>
  /\ throwing = {}

\* no function is applied on its own
PureVarsAtRest ==
  /\ input = <<>>
  /\ output = <<>>

\* what a specification of run calls on one engine leaves unused
EngineOnly ==
  /\ BatchVarsAtRest
  /\ PureVarsAtRest

\* the later specifications' variables, unused
RestVarsAtRest ==
  /\ BatchVarsAtRest
  /\ HookVarsAtRest
  /\ PureVarsAtRest

\* no overlapping run calls are modelled
ConcurrentVarsAtRest ==
  /\ suspended = EmptyBag
  /\ lastReturn = NoReturn
  /\ overlap = FALSE
  /\ unreported = <<>>
  /\ misreported = FALSE
  /\ reported = NoReport
  /\ failuresSince = 0
  /\ admittedInEpisode = 0
  /\ RestVarsAtRest

\* the signals an abort listener of the engine can sit on: the caller's
\* signal, the call's composite signal, the attempt's controller signal and
\* the attempt's composite signal
ListenedSignals == {"outer", "composite", "controller", "attempt"}

\* no listener attached, no composite signal awaiting its cleanup
NoListeners == [attached |-> {}, pending |-> {}]

\* variant: a composite signal's cleanup removes nothing
cleanupNothing(ls, owner) == [ls EXCEPT !.pending = @ \ {owner}]
\* the cleanup closure createCompositeSignal returns for the composite signal
\* owner: removeEventListener for each listener it added (a no-op closure
\* when it added none); removing a listener that is gone changes nothing
cleanup(ls, owner) ==
  [attached |-> ls.attached \ {<<s, owner>> : s \in ListenedSignals},
   pending |-> ls.pending \ {owner}]

\* createCompositeSignal(...inputs) for the composite signal owner, where
\* anyAborted says that some input is aborted already
createCompositeSignal(ls, owner, inputs, anyAborted) ==
  [attached |-> IF inputs = {} \/ anyAborted THEN ls.attached
                ELSE ls.attached \cup {<<s, owner>> : s \in inputs},
   pending |-> ls.pending \cup {owner}]

\* addEventListener('abort', ..., {once: true}) by sleep or withTimeout
addListener(ls, s, owner) == [ls EXCEPT !.attached = @ \cup {<<s, owner>>}]

\* the cleanup sleep and withTimeout run on every path that settles them
removeListener(ls, s, owner) == [ls EXCEPT !.attached = @ \ {<<s, owner>>}]

\* the signal s aborts: its once-listeners run and are gone, and a
\* composite signal whose listener ran aborts in turn
RECURSIVE Fired(_, _)
Fired(att, s) ==
  LET ran == {p \in att : p[1] = s}
      rest == att \ ran
  IN IF <<s, "composite">> \in ran THEN Fired(rest, "composite")
     ELSE IF <<s, "attempt">> \in ran THEN Fired(rest, "attempt")
     ELSE rest

\* dispatch of the abort event on s
Fire(ls, s) == [ls EXCEPT !.attached = Fired(@, s)]

\* variant: the timeout callback leaves the attempt's controller alone
onTimeoutNoAbort(ls) == ls
\* the callback handed to withTimeout: attemptController.abort(), before the
\* TimeoutError is built
onTimeout(ls) == Fire(ls, "controller")

\* attemptSignal.aborted: one of the listeners the attempt's composite signal
\* put on its inputs has run
AttemptSignalAborted(ls) ==
  \/ <<"controller", "attempt">> \notin ls.attached
  \/ <<"composite", "attempt">> \notin ls.attached

\* the head of one pass of runAttempt's loop: the attempt's composite signal
\* over the call's composite signal and the attempt's controller, and
\* withTimeout's listener on it when a timeout is set
StartAttempt(ls) ==
  LET a == createCompositeSignal(ls, "attempt", {"composite", "controller"}, FALSE)
  IN IF config.timeout THEN addListener(a, "attempt", "withTimeout") ELSE a

\* the attempt settles: withTimeout's cleanup
SettleAttempt(ls) ==
  IF config.timeout THEN removeListener(ls, "attempt", "withTimeout") ELSE ls

\* the finally blocks on the way out of executeInternal: the attempt's
\* cleanup where an attempt was made, then the call's
LeaveAttempt(ls) == cleanup(cleanup(ls, "attempt"), "composite")

Init ==
  /\ config \in Configs
  /\ pc = "idle"
  /\ calls = 0
  /\ signal = "none"
  /\ attempt = 0
  /\ totalAttempts = 0
  /\ lastError = Null
  /\ retryHistory = <<>>
  /\ taskCalls = 0
  /\ attemptLog = <<>>
  /\ returned = "null"
  /\ cancelledAt = "never"
  /\ sleepRejected = FALSE
  /\ result = NoResult
  /\ hooks = NoHooks
  /\ breaker = NewBreaker
  /\ lastCircuitState = "closed"
  /\ now = 0
  /\ timerDue = FALSE
  /\ listeners = NoListeners
  /\ ConcurrentVarsAtRest

\* variant: an aborted Result is not reported to the breaker
ReturnResultAbortedUncounted(r) ==
  /\ result' = r
  /\ pc' = "done"
  /\ IF config.circuitBreaker
     THEN LET recorded == IF r.ok THEN recordSuccess(breaker)
                          ELSE IF r.type = "aborted" THEN breaker
                          ELSE recordFailure(breaker, config.breakerConfig, now)
              after == updateStateIfNeeded(recorded, now)
          IN /\ breaker' = after
             /\ lastCircuitState' = after.state
     ELSE UNCHANGED <<breaker, lastCircuitState>>
\* variant: the breaker hears of the failed attempts too, one failure for a
\* call that was retried before the call's own outcome
ReturnResultPerAttempt(r) ==
  /\ result' = r
  /\ pc' = "done"
  /\ IF config.circuitBreaker
     THEN LET earlier == IF r.totalAttempts > 1
                         THEN recordFailure(breaker, config.breakerConfig, now)
                         ELSE breaker
              recorded == IF r.ok THEN recordSuccess(earlier)
                          ELSE recordFailure(earlier, config.breakerConfig, now)
              after == updateStateIfNeeded(recorded, now)
          IN /\ breaker' = after
             /\ lastCircuitState' = after.state
     ELSE UNCHANGED <<breaker, lastCircuitState>>
\* run, after executeInternal has produced r: notify the breaker, take the
\* state snapshot and return r.
ReturnResult(r) ==
  /\ result' = r
  /\ pc' = "done"
  /\ IF config.circuitBreaker
     THEN LET recorded == IF r.ok THEN recordSuccess(breaker)
                          ELSE recordFailure(breaker, config.breakerConfig, now)
              after == updateStateIfNeeded(recorded, now)
          IN /\ breaker' = after
             /\ lastCircuitState' = after.state
     ELSE UNCHANGED <<breaker, lastCircuitState>>

\* run(task, {signal}), up to the breaker's verdict
Run(sig) ==
  /\ pc \in {"idle", "done"}
  /\ calls < MaxCalls
  /\ calls' = calls + 1
  /\ signal' = sig
  /\ cancelledAt' = IF sig = "aborted" THEN "before" ELSE "never"
  /\ attempt' = 0
  /\ totalAttempts' = 0
  /\ lastError' = Null
  /\ retryHistory' = <<>>
  /\ taskCalls' = 0
  /\ attemptLog' = <<>>
  /\ returned' = "null"
  /\ sleepRejected' = FALSE
  /\ hooks' = NoHooks
  /\ IF config.circuitBreaker
     THEN LET verdict == canExecute(breaker, config.breakerConfig, now) IN
          /\ breaker' = verdict.breaker
          /\ lastCircuitState' = verdict.breaker.state
          /\ IF verdict.allowed
             THEN pc' = "admitted" /\ result' = NoResult
             ELSE pc' = "done" /\ result' = CircuitOpenResult
     ELSE /\ pc' = "admitted"
          /\ result' = NoResult
          /\ UNCHANGED <<breaker, lastCircuitState>>
  /\ UNCHANGED <<config, now, timerDue, listeners>>
  /\ UNCHANGED concurrentVars

\* executeInternal up to the first invocation of the task
Execute ==
  LET composite == createCompositeSignal(listeners, "composite",
                     IF signal = "none" THEN {} ELSE {"outer"},
                     signal = "aborted")
  IN
  /\ pc = "admitted"
  /\ IF signal = "aborted"
     THEN /\ hooks' = [hooks EXCEPT !.onAbort = @ + 1]
          /\ ReturnResult(EarlyAbortResult(NormalizeAndMap(config, AbortDOMException)))
          /\ listeners' = cleanup(composite, "composite")
          /\ UNCHANGED <<attempt, totalAttempts, taskCalls>>
     ELSE /\ attempt' = 1
          /\ totalAttempts' = 1
          /\ taskCalls' = taskCalls + 1
          /\ pc' = "inflight"
          /\ listeners' = StartAttempt(composite)
          /\ UNCHANGED <<hooks, result, breaker, lastCircuitState>>
  /\ timerDue' = ArmTimeout
  /\ UNCHANGED <<config, calls, signal, lastError, retryHistory, attemptLog,
                 returned, cancelledAt, sleepRejected, now>>
  /\ UNCHANGED concurrentVars

\* variant: onError fires for every failed attempt
FiresOnErrorAlways(ignoreAbort, isAbort) == TRUE
\* if (!(ignoreAbort && mapped.code === 'ABORTED')) safeCall(hooks?.onError, ...)
FiresOnError(ignoreAbort, isAbort) == ~(ignoreAbort /\ isAbort)

\* runAttempt's catch block for an attempt that rejected with raw, where sig
\* is the caller's signal at that moment and verdict is what shouldRetry
\* answers if it is consulted, and ls the listeners attached when the race
\* rejected.
CatchAttempt(raw, sig, verdict, ls) ==
  LET mapped == NormalizeAndMap(config, raw)
      settled == SettleAttempt(ls)
      isAbort == IsAborted(mapped)
      h1 == [hooks EXCEPT
               !.onAbort = @ + (IF isAbort THEN 1 ELSE 0),
               !.onError = @ + (IF FiresOnError(config.ignoreAbort, isAbort)
                                THEN 1 ELSE 0)]
      canRetry == ~isAbort /\ WithinRetryBudget(attempt, config.maxRetries)
      consulted == canRetry /\ config.shouldRetry
      retry == canRetry /\ ShouldRetryAllows(config.shouldRetry, verdict)
      pushed == Append(retryHistory, [attempt |-> attempt, error |-> mapped])
  IN
  /\ lastError' = mapped
  /\ attemptLog' = Append(attemptLog,
       [error |-> mapped,
        timedOut |-> raw = TimeoutErrorTyped,
        signalAborted |-> AttemptSignalAborted(ls),
        shouldRetry |-> IF ~consulted THEN "notCalled"
                        ELSE IF verdict THEN "true" ELSE "false"])
  /\ IF retry
     THEN /\ retryHistory' = pushed
          /\ attempt' = attempt + 1
          /\ IF SleepRejectsAtOnce(sig)
             THEN \* sleep rejects at once; lastError is what the outer catch uses
                  /\ sleepRejected' = TRUE
                  /\ hooks' = [h1 EXCEPT !.onRetry = @ + 1, !.onFinally = @ + 1]
                  /\ ReturnResult(FailureResult(FinalError(mapped, AbortDOMException),
                                                totalAttempts, pushed))
                  /\ listeners' = LeaveAttempt(settled)
             ELSE /\ hooks' = [h1 EXCEPT !.onRetry = @ + 1]
                  /\ pc' = "sleeping"
                  /\ listeners' = addListener(settled, "composite", "sleep")
                  /\ UNCHANGED <<sleepRejected, result, breaker, lastCircuitState>>
     ELSE /\ hooks' = [h1 EXCEPT !.onFinally = @ + 1]
          /\ ReturnResult(FailureResult(FinalError(mapped, raw),
                                        totalAttempts, retryHistory))
          /\ listeners' = LeaveAttempt(settled)
          /\ UNCHANGED <<retryHistory, attempt, sleepRejected>>
  /\ timerDue' = FALSE
  /\ UNCHANGED <<config, calls, totalAttempts, taskCalls, returned, now>>

\* the task's promise fulfils with v
TaskResolves(v) ==
  /\ pc = "inflight"
  /\ returned' = v
  /\ hooks' = [hooks EXCEPT !.onSuccess = @ + 1, !.onFinally = @ + 1]
  /\ ReturnResult(SuccessResult(v, totalAttempts, retryHistory))
  /\ listeners' = LeaveAttempt(SettleAttempt(listeners))
  /\ timerDue' = FALSE
  /\ UNCHANGED <<config, calls, signal, attempt, totalAttempts, lastError,
                 retryHistory, taskCalls, attemptLog, cancelledAt,
                 sleepRejected, now>>
  /\ UNCHANGED concurrentVars

\* the task throws or its promise rejects with raw
TaskRejects(raw, verdict) ==
  /\ pc = "inflight"
  /\ CatchAttempt(raw, signal, verdict, listeners)
  /\ UNCHANGED <<signal, cancelledAt>>
  /\ UNCHANGED concurrentVars

\* the attempt's timeout fires: the callback passed to withTimeout aborts the
\* attempt's controller and the race rejects with the TimeoutError it builds
\* (src/src/utils/timing.ts holds the three-argument withTimeout, which
\* rejects with a plain Error instead; the call site is followed here)
TimeoutFires(verdict) ==
  /\ pc = "inflight"
  /\ UsesTimeout(config)
  /\ timerDue
  /\ CatchAttempt(TimeoutErrorTyped, signal, verdict, onTimeout(listeners))
  /\ UNCHANGED <<signal, cancelledAt>>
  /\ UNCHANGED concurrentVars

\* the caller aborts its signal while the call is running
AbortFires(verdict) ==
  /\ signal = "live"
  /\ pc \in {"inflight", "sleeping"}
  /\ signal' = "aborted"
  /\ cancelledAt' = pc
  /\ UNCHANGED concurrentVars
  /\ IF pc = "sleeping"
     THEN \* sleep's onAbort rejects; the rejection leaves runAttempt
          /\ sleepRejected' = TRUE
          /\ hooks' = [hooks EXCEPT !.onFinally = @ + 1]
          /\ ReturnResult(FailureResult(FinalError(lastError, AbortDOMException),
                                        totalAttempts, retryHistory))
          /\ listeners' = LeaveAttempt(removeListener(Fire(listeners, "outer"),
                                                      "composite", "sleep"))
          /\ UNCHANGED <<config, calls, attempt, totalAttempts, lastError,
                         retryHistory, taskCalls, attemptLog, returned, now,
                         timerDue>>
     ELSE IF config.timeout
     THEN \* withTimeout's onAbort settles the race with AbortError
          CatchAttempt(AbortDOMException, "aborted", verdict,
                       Fire(listeners, "outer"))
     ELSE \* the composite signals abort, and nothing of the engine awaits
          \* them: it keeps awaiting the task
          /\ listeners' = Fire(listeners, "outer")
          /\ UNCHANGED <<config, pc, calls, attempt, totalAttempts, lastError,
                         retryHistory, taskCalls, attemptLog, returned,
                         sleepRejected, result, hooks, breaker,
                         lastCircuitState, now, timerDue>>

\* the retry sleep's timer fires: the loop continues with the next attempt
SleepElapses ==
  /\ pc = "sleeping"
  /\ totalAttempts' = attempt
  /\ taskCalls' = taskCalls + 1
  /\ pc' = "inflight"
  /\ timerDue' = ArmTimeout
  /\ listeners' = StartAttempt(cleanup(removeListener(listeners, "composite", "sleep"),
                                       "attempt"))
  /\ UNCHANGED <<config, calls, signal, attempt, lastError, retryHistory,
                 attemptLog, returned, cancelledAt, sleepRejected, result,
                 hooks, breaker, lastCircuitState, now>>
  /\ UNCHANGED concurrentVars

\* the timeout passes while the attempt is in flight: the timer armed for
\* this attempt reaches its deadline
TimerElapses ==
  /\ pc = "inflight"
  /\ UsesTimeout(config)
  /\ ~timerDue
  /\ timerDue' = TRUE
  /\ UNCHANGED concurrentVars
  /\ UNCHANGED <<config, pc, calls, signal, attempt, totalAttempts, lastError,
                 retryHistory, taskCalls, attemptLog, returned, cancelledAt,
                 sleepRejected, result, hooks, breaker, lastCircuitState, now,
                 listeners>>

\* wall-clock time passes; calls are issued one after another and the
\* breaker reads the clock only relative to its own earlier readings, so
\* letting time pass between calls covers time passing during them
Tick ==
  /\ config.circuitBreaker
  /\ pc \in {"idle", "done"}
  /\ now < MaxTime
  /\ now' = now + 1
  /\ UNCHANGED concurrentVars
  /\ UNCHANGED <<config, pc, calls, signal, attempt, totalAttempts, lastError,
                 retryHistory, taskCalls, attemptLog, returned, cancelledAt,
                 sleepRejected, result, hooks, breaker, lastCircuitState,
                 timerDue, listeners>>

Next ==
  \/ \E sig \in {"none", "live", "aborted"} : Run(sig)
  \/ Execute
  \/ \E v \in Values : TaskResolves(v)
  \/ \E raw \in TaskThrows, verdict \in BOOLEAN : TaskRejects(raw, verdict)
  \/ \E verdict \in BOOLEAN : TimeoutFires(verdict)
  \/ \E verdict \in BOOLEAN : AbortFires(verdict)
  \/ SleepElapses
  \/ TimerElapses
  \/ Tick

Spec == Init /\ [][Next]_vars

\* ------------------------------------------- run calls that must return
\* the engines with a timeout configured; maxRetries is finite in every one
LiveInit == Init /\ config.timeout

\* what the platform guarantees, and nothing about the task: a continuation
\* that is ready runs, and a timer that was set fires (the timeout's, and
\* the retry delay's, which is finite).  The task may never settle.
LiveFairness ==
  /\ WF_vars(Execute)
  /\ WF_vars(TimerElapses)
  /\ WF_vars(\E verdict \in BOOLEAN : TimeoutFires(verdict))
  /\ WF_vars(SleepElapses)

LiveSpec == LiveInit /\ [][Next]_vars /\ LiveFairness


\* ============================================ run calls sharing a breaker
\* Several run calls on one engine with a circuit breaker, each split where
\* run suspends: at `await canExecute()`, at `await executeInternal(...)` and
\* at `await recordSuccess()/recordFailure()`.  executeInternal is reduced
\* to the Result it returns.

\* circuitBreaker option of the engine under test
BreakerSpecConfigs ==
  { [circuitBreaker |-> TRUE, breakerConfig |-> bc, shouldCountAsFailure |-> f] :
       bc \in BreakerConfigs
               \cup { [failureThreshold |-> 2, resetTimeout |-> 1, halfOpenRequests |-> 1],
                      [failureThreshold |-> 1, resetTimeout |-> 1, halfOpenRequests |-> 2] },
       f \in BOOLEAN }

\* a validation error, which the configured shouldCountAsFailure exempts
ValidationError == TypedErr("VALIDATION", FALSE)

\* variant: the configured filter is not consulted
shouldCountAlways(cfg, e) == TRUE
\* config.shouldCountAsFailure?.(error) ?? true, with the filter of the
\* spec's example: validation errors do not count
shouldCount(cfg, e) == ~cfg.shouldCountAsFailure \/ e.code # "VALIDATION"

\* CircuitBreaker.recordFailure(error) at time t
recordFailureFiltered(b, cfg, e, t) ==
  IF ~shouldCount(cfg, e) THEN b ELSE recordFailure(b, cfg.breakerConfig, t)

\* Results executeInternal may return to run
Outcomes ==
  { SuccessResult("v1", 1, <<>>),
    FailureResult(TypedErr("UNKNOWN", TRUE), 1, <<>>),
    FailureResult(ValidationError, 1, <<>>) }

\* a run call suspended at `await canExecute()`
AwaitingCanExecute(before, allowed) ==
  [pc |-> "canExecute", before |-> before, allowed |-> allowed,
   result |-> NoResult, probe |-> FALSE]

\* a run call suspended at `await executeInternal(...)`: its task is running
AwaitingExecute ==
  [pc |-> "executing", before |-> "closed", allowed |-> TRUE,
   result |-> NoResult, probe |-> FALSE]

\* a run call suspended at `await recordSuccess()` / `await recordFailure()`
AwaitingRecord(before, r) ==
  [pc |-> "recording", before |-> before, allowed |-> TRUE, result |-> r,
   probe |-> FALSE]

\* the suspended call c, admitted by canExecute's half-open branch (p) or
\* not: the calls that branch admits are the probes of the half-open state
AsProbe(c, p) == [c EXCEPT !.probe = p]

\* one suspended call c has moved on to d
Resume(c, d) == (suspended (-) SetToBag({c})) (+) SetToBag({d})

\* the unreported changes after a step took the breaker from b1 to b2
\* (nothing is tracked any more once a report has been wrong)
Changed(b1, b2) ==
  IF b1.state # b2.state /\ ~misreported
  THEN Append(unreported, [from |-> b1.state, to |-> b2.state])
  ELSE unreported

\* if (before !== after) hooks.onCircuitStateChange(before, after), checked
\* against the changes still to be reported, of which pending is the list
ReportMatches(pending, before, after) ==
  pending # <<>> /\ Head(pending) = [from |-> before, to |-> after]

\* the pairs passed to onCircuitStateChange so far, after run compared
\* before with after (nothing is tracked any more once the chain is broken)
Report(rep, before, after) ==
  IF before = after \/ ~rep.chained THEN rep
  ELSE [to |-> after, chained |-> before = rep.to]

\* run's state snapshot after an await: after = getState().state, the hook
\* call, and lastCircuitState = after
SnapshotAndReport(before) ==
  LET after == updateStateIfNeeded(breaker, now)
      pending == Changed(breaker, after)
  IN /\ breaker' = after
     /\ admittedInEpisode' =
          IF breaker.state # after.state THEN 0 ELSE admittedInEpisode
     /\ lastCircuitState' = after.state
     /\ IF before = after.state
        THEN unreported' = pending /\ UNCHANGED misreported
        ELSE IF ReportMatches(pending, before, after.state)
        THEN unreported' = Tail(pending) /\ UNCHANGED misreported
        ELSE unreported' = <<>> /\ misreported' = TRUE
     /\ reported' = Report(reported, before, after.state)

BreakerInit ==
  /\ config \in BreakerSpecConfigs
  /\ overlap \in BOOLEAN
  /\ suspended = EmptyBag
  /\ lastReturn = NoReturn
  /\ unreported = <<>>
  /\ misreported = FALSE
  /\ reported = NoReport
  /\ failuresSince = 0
  /\ admittedInEpisode = 0
  /\ RestVarsAtRest
  /\ calls = 0
  /\ breaker = NewBreaker
  /\ lastCircuitState = "closed"
  /\ now = 0
  /\ pc = "idle"
  /\ signal = "none"
  /\ attempt = 0
  /\ totalAttempts = 0
  /\ lastError = Null
  /\ retryHistory = <<>>
  /\ taskCalls = 0
  /\ attemptLog = <<>>
  /\ returned = "null"
  /\ cancelledAt = "never"
  /\ sleepRejected = FALSE
  /\ result = NoResult
  /\ hooks = NoHooks
  /\ timerDue = FALSE
  /\ listeners = NoListeners

\* run is called: `before` is read and canExecute's body runs, up to the
\* await
BeginRun ==
  /\ calls < MaxBreakerCalls
  /\ BagCardinality(suspended) < (IF overlap THEN MaxInFlight ELSE 1)
  /\ LET verdict == canExecute(breaker, config.breakerConfig, now)
         entered == breaker.state # "half-open"
                      /\ verdict.breaker.state = "half-open"
         probe == verdict.allowed /\ verdict.breaker.state = "half-open"
     IN /\ breaker' = verdict.breaker
        /\ unreported' = Changed(breaker, verdict.breaker)
        /\ admittedInEpisode' = (IF entered THEN 0 ELSE admittedInEpisode)
                                  + (IF probe THEN 1 ELSE 0)
        /\ suspended' = suspended (+)
             SetToBag({AsProbe(AwaitingCanExecute(lastCircuitState,
                                                  verdict.allowed), probe)})
  /\ calls' = calls + 1
  /\ UNCHANGED <<config, overlap, lastReturn, misreported, reported,
                 failuresSince,
                 lastCircuitState, now>>
  /\ UNCHANGED runVars
  /\ UNCHANGED restVars

\* run, resumed after canExecute: the state is read and reported, then the
\* call is rejected or handed to executeInternal, which invokes the task
AfterCanExecute(c) ==
  /\ BagIn(c, suspended)
  /\ c.pc = "canExecute"
  /\ SnapshotAndReport(c.before)
  /\ IF c.allowed
     THEN /\ suspended' = Resume(c, AsProbe(AwaitingExecute, c.probe))
          /\ UNCHANGED lastReturn
     ELSE /\ suspended' = suspended (-) SetToBag({c})
          /\ lastReturn' = [allowed |-> FALSE, invoked |-> FALSE,
                            result |-> CircuitOpenResult]
  /\ UNCHANGED <<config, overlap, calls, failuresSince, now>>
  /\ UNCHANGED runVars
  /\ UNCHANGED restVars

\* run, resumed with executeInternal's Result r: `before` is read and the
\* body of recordSuccess or recordFailure runs, up to the await
AfterExecute(c, r) ==
  /\ BagIn(c, suspended)
  /\ c.pc = "executing"
  /\ LET recorded == IF r.ok THEN recordSuccess(breaker)
                     ELSE recordFailureFiltered(breaker, config, r.error, now)
     IN /\ breaker' = recorded
        /\ unreported' = Changed(breaker, recorded)
  /\ failuresSince' = IF overlap \/ r.ok THEN 0
                      ELSE IF shouldCount(config, r.error)
                      THEN failuresSince + 1 ELSE failuresSince
  /\ suspended' = Resume(c, AsProbe(AwaitingRecord(lastCircuitState, r),
                                     c.probe))
  /\ UNCHANGED <<config, overlap, calls, lastReturn, misreported, reported,
                 admittedInEpisode, lastCircuitState, now>>
  /\ UNCHANGED runVars
  /\ UNCHANGED restVars

\* run, resumed after the record: the state is read and reported and the
\* Result is returned
AfterRecord(c) ==
  /\ BagIn(c, suspended)
  /\ c.pc = "recording"
  /\ SnapshotAndReport(c.before)
  /\ suspended' = suspended (-) SetToBag({c})
  /\ lastReturn' = [allowed |-> TRUE, invoked |-> TRUE, result |-> c.result]
  /\ UNCHANGED <<config, overlap, calls, failuresSince, now>>
  /\ UNCHANGED runVars
  /\ UNCHANGED restVars

\* Date.now() advances; it may do so wherever a call is suspended
ClockTick ==
  /\ now < MaxClock
  /\ now' = now + 1
  /\ UNCHANGED <<config, calls, breaker, lastCircuitState>>
  /\ UNCHANGED concurrentVars
  /\ UNCHANGED runVars

BreakerNext ==
  \/ BeginRun
  \/ \E c \in BagToSet(suspended) : AfterCanExecute(c)
  \/ \E c \in BagToSet(suspended), r \in Outcomes : AfterExecute(c, r)
  \/ \E c \in BagToSet(suspended) : AfterRecord(c)
  \/ ClockTick

BreakerSpec == BreakerInit /\ [][BreakerNext]_vars

\* ------------------------------------------------- all(): a batch of tasks
\* Number.POSITIVE_INFINITY, the default concurrency
Infinity == -1

\* the engine's options merged with the AllOptions of one all() call, which
\* carry a signal; tasks is tasks.length
BatchConfigs ==
  { [maxRetries |-> m, timeout |-> FALSE, ignoreAbort |-> FALSE,
     shouldRetry |-> FALSE, toError |-> FALSE, rulesMode |-> "extend",
     rules |-> <<>>, mapError |-> FALSE,
     circuitBreaker |-> b.circuitBreaker, breakerConfig |-> b.breakerConfig,
     concurrency |-> c, tasks |-> k] :
       m \in 0..1, b \in BreakerOptions,
       c \in (1..MaxConcurrency) \cup {Infinity}, k \in 0..MaxTasks }

MathMin(a, b) == IF a < b THEN a ELSE b

\* the indices of tasks
Indices == 0 .. config.tasks - 1

\* variant: one worker per task
WorkerCountPerTask == config.tasks
\* Array.from({ length: Math.min(concurrency, tasks.length) }, ...)
WorkerCount == MathMin(config.concurrency, config.tasks)

\* a task for which run has not been called
NoSlot ==
  [pc |-> "none", attempt |-> 0, invoked |-> 0, lastError |-> Null,
   retryHistory |-> <<>>, allowed |-> FALSE, result |-> NoResult]

\* the run calls that have started and not returned
InFlight == { i \in Indices : slots[i].pc \notin {"none", "returned"} }

\* the value task i resolves with
TaskValue(i) == i

\* what a task may reject with: any error, or the AbortError of a task that
\* honours the fired signal
TaskRejections(sig) ==
  IF sig = "aborted" THEN {PlainError, AbortDOMException} ELSE {PlainError}

\* the slots the signal's firing leaves untaken
UntakenAfter(sigBefore, sigAfter, idxAfter) ==
  IF sigBefore # "aborted" /\ sigAfter = "aborted"
  THEN [fired |-> TRUE, indices |-> { j \in Indices : j >= idxAfter }]
  ELSE untaken

\* run returns r for task i: with a breaker the outcome is recorded first
Settle(i, r) ==
  IF config.circuitBreaker
  THEN /\ breaker' = IF r.ok THEN recordSuccess(breaker)
                     ELSE recordFailure(breaker, config.breakerConfig, now)
       /\ slots' = [slots EXCEPT ![i] = [@ EXCEPT !.pc = "recording",
                                                  !.result = r]]
  ELSE /\ slots' = [slots EXCEPT ![i] = [@ EXCEPT !.pc = "returned",
                                                  !.result = r]]
       /\ UNCHANGED breaker

\* executeInternal for task i up to its first await: the already-cancelled
\* short-circuit, or the first attempt's invocation of the task, whose
\* synchronous part may cancel the caller's signal
Enter(i, fires) ==
  IF signal = "aborted"
  THEN /\ Settle(i, EarlyAbortResult(NormalizeAndMap(config, AbortDOMException)))
       /\ UNCHANGED signal
  ELSE /\ slots' = [slots EXCEPT ![i] = [@ EXCEPT !.pc = "inflight",
                                                  !.attempt = 1,
                                                  !.invoked = 1]]
       /\ signal' = IF fires /\ signal = "live" THEN "aborted" ELSE signal
       /\ UNCHANGED breaker

\* this.run(task, mergedConfig) up to its first await
StartRun(i, fires) ==
  /\ runs' = [runs EXCEPT ![i] = @ + 1]
  /\ IF config.circuitBreaker
     THEN LET verdict == canExecute(breaker, config.breakerConfig, now) IN
          /\ breaker' = verdict.breaker
          /\ slots' = [slots EXCEPT ![i] = [@ EXCEPT !.pc = "canExecute",
                                                     !.allowed = verdict.allowed]]
          /\ UNCHANGED signal
     ELSE Enter(i, fires)

\* what no step of a batch changes
BatchFrame ==
  /\ UNCHANGED <<config, calls, now>>
  /\ UNCHANGED callVars
  /\ UNCHANGED breakerVars
  /\ UNCHANGED hookVars
  /\ UNCHANGED pureVars

\* all(tasks, {concurrency, signal}) has been called on a new engine
BatchInit ==
  /\ config \in BatchConfigs
  /\ signal \in {"live", "aborted"}
  /\ batch = [phase |-> "starting", idx |-> 0]
  /\ workers = [w \in 1 .. (IF config.concurrency = Infinity THEN 0 ELSE WorkerCount) |->
                  [pc |-> "new", current |-> 0]]
  /\ slots = [i \in Indices |-> NoSlot]
  /\ out = [i \in Indices |-> NoResult]
  /\ untaken = [fired |-> FALSE, indices |-> {}]
  /\ runs = [i \in Indices |-> 0]
  /\ HookVarsAtRest
  /\ PureVarsAtRest
  /\ suspended = EmptyBag
  /\ lastReturn = NoReturn
  /\ overlap = FALSE
  /\ unreported = <<>>
  /\ misreported = FALSE
  /\ reported = NoReport
  /\ failuresSince = 0
  /\ admittedInEpisode = 0
  /\ calls = 0
  /\ breaker = NewBreaker
  /\ lastCircuitState = "closed"
  /\ now = 0
  /\ pc = "idle"
  /\ attempt = 0
  /\ totalAttempts = 0
  /\ lastError = Null
  /\ retryHistory = <<>>
  /\ taskCalls = 0
  /\ attemptLog = <<>>
  /\ returned = "null"
  /\ cancelledAt = "never"
  /\ sleepRejected = FALSE
  /\ result = NoResult
  /\ hooks = NoHooks
  /\ timerDue = FALSE
  /\ listeners = NoListeners

\* variant: the shared counter is read but not advanced (current = idx)
WorkerLoopSameIndex(w, fires) ==
  IF batch.idx < config.tasks /\ signal # "aborted"
  THEN /\ batch' = batch
       /\ workers' = [workers EXCEPT ![w] = [pc |-> "awaiting",
                                             current |-> batch.idx]]
       /\ StartRun(batch.idx, fires)
  ELSE /\ workers' = [workers EXCEPT ![w] = [pc |-> "exited",
                                             current |-> @.current]]
       /\ UNCHANGED <<batch, slots, breaker, signal, runs>>
\* one pass of the worker's loop: leave when the counter is exhausted or the
\* signal has fired, else take the next index and call run for it
WorkerLoop(w, fires) ==
  IF batch.idx < config.tasks /\ signal # "aborted"
  THEN /\ batch' = [batch EXCEPT !.idx = @ + 1]
       /\ workers' = [workers EXCEPT ![w] = [pc |-> "awaiting",
                                             current |-> batch.idx]]
       /\ StartRun(batch.idx, fires)
  ELSE /\ workers' = [workers EXCEPT ![w] = [pc |-> "exited",
                                             current |-> @.current]]
       /\ UNCHANGED <<batch, slots, breaker, signal, runs>>

\* the synchronous part of all(): each worker() call runs to its first await
\* before the next worker is created
StartWorker(w, fires) ==
  /\ batch.phase = "starting"
  /\ config.concurrency # Infinity
  /\ w \in DOMAIN workers
  /\ workers[w].pc = "new"
  /\ \A v \in DOMAIN workers : v < w => workers[v].pc # "new"
  /\ WorkerLoop(w, fires)
  /\ untaken' = UntakenAfter(signal, signal', batch'.idx)
  /\ UNCHANGED <<out, lastCircuitState>>
  /\ BatchFrame

\* tasks.map((task) => this.run(task, mergedConfig)): run is called for each
\* task in order before anything else happens
MapRun(i, fires) ==
  /\ batch.phase = "starting"
  /\ config.concurrency = Infinity
  /\ i = batch.idx
  /\ i < config.tasks
  /\ batch' = [batch EXCEPT !.idx = @ + 1]
  /\ StartRun(i, fires)
  /\ untaken' = UntakenAfter(signal, signal', batch'.idx)
  /\ UNCHANGED <<workers, out, lastCircuitState>>
  /\ BatchFrame

\* all() reaches its await: Promise.all(workers), or Promise.all of the runs
AwaitAll ==
  /\ batch.phase = "starting"
  /\ IF config.concurrency = Infinity THEN batch.idx = config.tasks
     ELSE \A w \in DOMAIN workers : workers[w].pc # "new"
  /\ batch' = [batch EXCEPT !.phase = "running"]
  /\ UNCHANGED <<workers, slots, runs, out, untaken, signal, breaker, lastCircuitState>>
  /\ BatchFrame

\* run for task i, resumed after canExecute: the state snapshot, then the
\* rejection or executeInternal
SlotAfterCanExecute(i, fires) ==
  /\ batch.phase # "starting"
  /\ i \in Indices
  /\ slots[i].pc = "canExecute"
  /\ LET after == updateStateIfNeeded(breaker, now) IN
     /\ lastCircuitState' = after.state
     /\ IF slots[i].allowed
        THEN IF signal = "aborted"
             THEN /\ breaker' = recordFailure(after, config.breakerConfig, now)
                  /\ slots' = [slots EXCEPT ![i] =
                       [@ EXCEPT !.pc = "recording",
                                 !.result = EarlyAbortResult(
                                    NormalizeAndMap(config, AbortDOMException))]]
                  /\ UNCHANGED signal
             ELSE /\ breaker' = after
                  /\ slots' = [slots EXCEPT ![i] = [@ EXCEPT !.pc = "inflight",
                                                             !.attempt = 1,
                                                             !.invoked = 1]]
                  /\ signal' = IF fires /\ signal = "live" THEN "aborted"
                               ELSE signal
        ELSE /\ breaker' = after
             /\ slots' = [slots EXCEPT ![i] = [@ EXCEPT !.pc = "returned",
                                                        !.result = CircuitOpenResult]]
             /\ UNCHANGED signal
  /\ untaken' = UntakenAfter(signal, signal', batch.idx)
  /\ UNCHANGED <<batch, workers, runs, out>>
  /\ BatchFrame

\* the current attempt of task i fulfils
SlotTaskResolves(i) ==
  /\ batch.phase # "starting"
  /\ i \in Indices
  /\ slots[i].pc = "inflight"
  /\ Settle(i, SuccessResult(TaskValue(i), slots[i].attempt,
                             slots[i].retryHistory))
  /\ UNCHANGED <<batch, workers, runs, out, untaken, signal, lastCircuitState>>
  /\ BatchFrame

\* the current attempt of task i rejects with raw: runAttempt's catch
SlotCatchAttempt(i, raw) ==
  /\ batch.phase # "starting"
  /\ i \in Indices
  /\ slots[i].pc = "inflight"
  /\ raw \in TaskRejections(signal)
  /\ LET sl == slots[i]
         mapped == NormalizeAndMap(config, raw)
         retry == ~IsAborted(mapped)
                    /\ WithinRetryBudget(sl.attempt, config.maxRetries)
         pushed == Append(sl.retryHistory,
                          [attempt |-> sl.attempt, error |-> mapped])
     IN IF retry
        THEN IF SleepRejectsAtOnce(signal)
             THEN Settle(i, FailureResult(FinalError(mapped, AbortDOMException),
                                            sl.attempt, pushed))
             ELSE /\ slots' = [slots EXCEPT ![i] =
                       [@ EXCEPT !.pc = "sleeping", !.lastError = mapped,
                                 !.retryHistory = pushed]]
                  /\ UNCHANGED breaker
        ELSE Settle(i, FailureResult(FinalError(mapped, raw), sl.attempt,
                                       sl.retryHistory))
  /\ UNCHANGED <<batch, workers, runs, out, untaken, signal, lastCircuitState>>
  /\ BatchFrame

\* the retry delay of task i has passed: the next attempt invokes the task
SlotSleepElapses(i, fires) ==
  /\ batch.phase # "starting"
  /\ i \in Indices
  /\ slots[i].pc = "sleeping"
  /\ signal # "aborted"
  /\ slots' = [slots EXCEPT ![i] = [@ EXCEPT !.pc = "inflight",
                                             !.attempt = @ + 1,
                                             !.invoked = @ + 1]]
  /\ signal' = IF fires /\ signal = "live" THEN "aborted" ELSE signal
  /\ untaken' = UntakenAfter(signal, signal', batch.idx)
  /\ UNCHANGED <<batch, workers, runs, out, breaker, lastCircuitState>>
  /\ BatchFrame

\* the signal has fired during the retry delay of task i: sleep rejects and
\* the outer catch returns the last attempt's error
SlotSleepAborted(i) ==
  /\ batch.phase # "starting"
  /\ i \in Indices
  /\ slots[i].pc = "sleeping"
  /\ signal = "aborted"
  /\ Settle(i, FailureResult(FinalError(slots[i].lastError, AbortDOMException),
                             slots[i].attempt, slots[i].retryHistory))
  /\ UNCHANGED <<batch, workers, runs, out, untaken, signal, lastCircuitState>>
  /\ BatchFrame

\* run for task i, resumed after recordSuccess / recordFailure: the state
\* snapshot, then the return
SlotAfterRecord(i) ==
  /\ batch.phase # "starting"
  /\ i \in Indices
  /\ slots[i].pc = "recording"
  /\ LET after == updateStateIfNeeded(breaker, now) IN
     /\ breaker' = after
     /\ lastCircuitState' = after.state
  /\ slots' = [slots EXCEPT ![i] = [@ EXCEPT !.pc = "returned"]]
  /\ UNCHANGED <<batch, workers, runs, out, untaken, signal>>
  /\ BatchFrame

\* the caller cancels the signal while the batch is under way
SignalFires ==
  /\ batch.phase \in {"running", "postpass"}
  /\ signal = "live"
  /\ signal' = "aborted"
  /\ untaken' = UntakenAfter(signal, signal', batch.idx)
  /\ UNCHANGED <<batch, workers, runs, slots, out, breaker, lastCircuitState>>
  /\ BatchFrame

\* a worker resumes with the Result of its run: out[current] is assigned and
\* the loop goes round
WorkerResumes(w, fires) ==
  /\ batch.phase = "running"
  /\ w \in DOMAIN workers
  /\ workers[w].pc = "awaiting"
  /\ slots[workers[w].current].pc = "returned"
  /\ out' = [out EXCEPT ![workers[w].current] = slots[workers[w].current].result]
  /\ WorkerLoop(w, fires)
  /\ untaken' = UntakenAfter(signal, signal', batch'.idx)
  /\ UNCHANGED lastCircuitState
  /\ BatchFrame

\* the array with the Results of the returned runs that no worker stored
Stored ==
  [i \in Indices |-> IF out[i] = NoResult /\ slots[i].pc = "returned"
                     THEN slots[i].result ELSE out[i]]

\* variant: the array is returned as the workers left it
PostPassSkipped(fires) ==
  /\ config.concurrency # Infinity
  /\ batch.phase = "running" /\ \A w \in DOMAIN workers : workers[w].pc = "exited"
  /\ InFlight = {}
  /\ batch' = [batch EXCEPT !.phase = "done"]
  /\ UNCHANGED <<workers, slots, runs, out, untaken, signal, breaker, lastCircuitState>>
  /\ BatchFrame
\* after Promise.all(workers): the loop over the array, which calls run for
\* the first index without a value, stores its Result and goes on
PostPass(fires) ==
  /\ config.concurrency # Infinity
  /\ \/ batch.phase = "running" /\ \A w \in DOMAIN workers : workers[w].pc = "exited"
     \/ batch.phase = "postpass"
  /\ InFlight = {}
  /\ out' = Stored
  /\ LET holes == { i \in Indices : Stored[i] = NoResult } IN
     IF holes = {}
     THEN /\ batch' = [batch EXCEPT !.phase = "done"]
          /\ UNCHANGED <<slots, breaker, signal, runs>>
     ELSE /\ batch' = [batch EXCEPT !.phase = "postpass"]
          /\ StartRun(CHOOSE i \in holes : \A j \in holes : i <= j, fires)
  /\ untaken' = UntakenAfter(signal, signal', batch.idx)
  /\ UNCHANGED <<workers, lastCircuitState>>
  /\ BatchFrame

\* Promise.all of the runs resolves with their Results in the order of tasks
MapResolves ==
  /\ config.concurrency = Infinity
  /\ batch.phase = "running"
  /\ \A i \in Indices : slots[i].pc = "returned"
  /\ out' = [i \in Indices |-> slots[i].result]
  /\ batch' = [batch EXCEPT !.phase = "done"]
  /\ UNCHANGED <<workers, slots, runs, untaken, signal, breaker, lastCircuitState>>
  /\ BatchFrame

\* Date.now() is not advanced: the batch is over before an opened breaker's
\* resetTimeout has passed
BatchNext ==
  \/ \E w \in DOMAIN workers, fires \in BOOLEAN : StartWorker(w, fires)
  \/ \E i \in Indices, fires \in BOOLEAN : MapRun(i, fires)
  \/ AwaitAll
  \/ \E i \in Indices, fires \in BOOLEAN : SlotAfterCanExecute(i, fires)
  \/ \E i \in Indices : SlotTaskResolves(i)
  \/ \E i \in Indices, raw \in {PlainError, AbortDOMException} : SlotCatchAttempt(i, raw)
  \/ \E i \in Indices, fires \in BOOLEAN : SlotSleepElapses(i, fires)
  \/ \E i \in Indices : SlotSleepAborted(i)
  \/ \E i \in Indices : SlotAfterRecord(i)
  \/ SignalFires
  \/ \E w \in DOMAIN workers, fires \in BOOLEAN : WorkerResumes(w, fires)
  \/ \E fires \in BOOLEAN : PostPass(fires)
  \/ MapResolves

BatchSpec == BatchInit /\ [][BatchNext]_vars

\* ------------------------------------- hooks that throw: two engines compared
\* Two engines with the same options receive the same calls, task outcomes
\* and signal; the hooks and logger callbacks of the first throw, those of
\* the second return.
Twins == {"throwing", "quiet"}

HookNames ==
  {"onSuccess", "onError", "onRetry", "onAbort", "onFinally",
   "onCircuitStateChange", "logger.info", "logger.error"}

\* the user callbacks the engine calls that are not hooks
CallbackNames ==
  {"toError", "mapError", "shouldRetry", "strategy", "jitter",
   "shouldCountAsFailure"}

\* the callbacks that throw on engine k
Throws(k) == IF k = "throwing" THEN throwing ELSE {}

HookConfigs ==
  { [maxRetries |-> m, timeout |-> FALSE, ignoreAbort |-> ia,
     shouldRetry |-> FALSE, toError |-> FALSE, rulesMode |-> "extend",
     rules |-> <<>>, mapError |-> FALSE,
     circuitBreaker |-> b.circuitBreaker, breakerConfig |-> b.breakerConfig] :
       m \in 0..1, ia \in BOOLEAN,
       b \in { o \in BreakerOptions : o.breakerConfig.failureThreshold <= 1 } }

\* variant: the callback is called without a guard
safeCallUnguarded(fn, th) == IF fn \in th THEN "thrown" ELSE "returned"
\* safeCall: try { fn?.(...args) } catch {}
safeCall(fn, th) == "returned"

\* a direct call of one of the user callbacks fns (there is no guard)
callUnguarded(fns, th) == IF fns \cap th # {} THEN "thrown" ELSE "returned"

\* run's own guard around onCircuitStateChange
tryStateChangeHook(th) == "returned"

\* safeCall for each of fns in turn, as far as control gets
RECURSIVE CallAll(_, _)
CallAll(fns, th) ==
  IF fns = <<>> THEN [fired |-> {}, thrown |-> FALSE]
  ELSE IF safeCall(Head(fns), th) = "thrown"
  THEN [fired |-> {Head(fns)}, thrown |-> TRUE]
  ELSE LET rest == CallAll(Tail(fns), th) IN
       [fired |-> {Head(fns)} \cup rest.fired, thrown |-> rest.thrown]

\* an engine on which run has not been called
NewTwin ==
  [pc |-> "idle", attempt |-> 0, totalAttempts |-> 0, lastError |-> Null,
   retryHistory |-> <<>>, taskCalls |-> 0, fired |-> {}, rejected |-> FALSE,
   result |-> NoResult, breaker |-> NewBreaker, lastCircuitState |-> "closed"]

\* the promise returned by run rejects
RunRejects(r) == [r EXCEPT !.pc = "done", !.rejected = TRUE, !.result = NoResult]

\* run after executeInternal has returned res: the breaker's record, the
\* state snapshot with its report, the return
Deliver(r, res, th) ==
  IF ~config.circuitBreaker THEN [r EXCEPT !.pc = "done", !.result = res]
  ELSE IF ~res.ok /\ callUnguarded({"shouldCountAsFailure"}, th) = "thrown"
  THEN RunRejects(r)
  ELSE LET recorded == IF res.ok THEN recordSuccess(r.breaker)
                       ELSE recordFailure(r.breaker, config.breakerConfig, now)
           after == updateStateIfNeeded(recorded, now)
           changed == r.lastCircuitState # after.state
           told == [r EXCEPT !.breaker = after,
                             !.fired = @ \cup (IF changed
                                               THEN {"onCircuitStateChange"}
                                               ELSE {})]
       IN IF changed /\ tryStateChangeHook(th) = "thrown" THEN RunRejects(told)
          ELSE [told EXCEPT !.pc = "done", !.result = res,
                            !.lastCircuitState = after.state]

\* executeInternal's outer catch, reached with err
OuterCatch(r, err, th) ==
  LET finalError == FinalError(r.lastError, err)
      called == CallAll(<<"onFinally">>, th)
      r1 == [r EXCEPT !.fired = @ \cup called.fired]
  IN IF r.lastError = Null /\ callUnguarded({"toError"}, th) = "thrown"
     THEN RunRejects(r)
     ELSE IF called.thrown THEN RunRejects(r1)
     ELSE Deliver(r1, FailureResult(finalError, r.totalAttempts, r.retryHistory), th)

\* runAttempt's catch block for an attempt that rejected with raw
AttemptFailed(r, raw, sig, th) ==
  LET mapped == NormalizeAndMap(config, raw)
      isAbort == IsAborted(mapped)
      first == CallAll((IF isAbort THEN <<"onAbort">> ELSE <<>>)
                       \o (IF FiresOnError(config.ignoreAbort, isAbort)
                           THEN <<"onError", "logger.error">> ELSE <<>>), th)
      r1 == [r EXCEPT !.lastError = mapped, !.fired = @ \cup first.fired]
      retry == ~isAbort /\ WithinRetryBudget(r.attempt, config.maxRetries)
      second == CallAll(<<"onRetry", "logger.info">>, th)
      r2 == [r1 EXCEPT !.retryHistory = Append(@, [attempt |-> r.attempt,
                                                   error |-> mapped]),
                       !.fired = @ \cup second.fired]
  IN IF callUnguarded({"toError", "mapError"}, th) = "thrown"
     THEN OuterCatch(r, PlainError, th)
     ELSE IF first.thrown THEN OuterCatch(r1, PlainError, th)
     ELSE IF ~retry THEN OuterCatch(r1, raw, th)
     ELSE IF callUnguarded({"shouldRetry", "strategy", "jitter"}, th) = "thrown"
     THEN OuterCatch(r1, PlainError, th)
     ELSE IF second.thrown THEN OuterCatch(r2, PlainError, th)
     ELSE IF SleepRejectsAtOnce(sig)
     THEN OuterCatch([r2 EXCEPT !.attempt = @ + 1], AbortDOMException, th)
     ELSE [r2 EXCEPT !.attempt = @ + 1, !.pc = "sleeping"]

\* the attempt's promise fulfils with v: the success hooks, inside
\* runAttempt's try, then executeInternal's success path
AttemptResolved(r, v, sig, th) ==
  LET inner == CallAll(<<"onSuccess", "logger.info">>, th)
      r1 == [r EXCEPT !.fired = @ \cup inner.fired]
      outer == CallAll(<<"onFinally">>, th)
      r2 == [r1 EXCEPT !.fired = @ \cup outer.fired]
  IN IF inner.thrown THEN AttemptFailed(r1, PlainError, sig, th)
     ELSE IF outer.thrown THEN OuterCatch(r2, PlainError, th)
     ELSE Deliver(r2, SuccessResult(v, r.totalAttempts, r.retryHistory), th)

\* executeInternal up to the first invocation of the task
ExecuteInternal(r, sig, th) ==
  IF sig = "aborted"
  THEN LET called == CallAll(<<"onAbort">>, th)
           r1 == [r EXCEPT !.fired = @ \cup called.fired]
       IN IF called.thrown THEN RunRejects(r1)
          ELSE IF callUnguarded({"toError", "mapError"}, th) = "thrown"
          THEN RunRejects(r1)
          ELSE Deliver(r1, EarlyAbortResult(NormalizeAndMap(config, AbortDOMException)), th)
  ELSE [r EXCEPT !.pc = "inflight", !.attempt = 1, !.totalAttempts = 1,
                 !.taskCalls = 1]

\* run(task, {signal}) up to the first invocation of the task
StartCall(r, sig, th) ==
  LET fresh == [r EXCEPT !.attempt = 0, !.totalAttempts = 0, !.lastError = Null,
                         !.retryHistory = <<>>, !.taskCalls = 0, !.fired = {},
                         !.rejected = FALSE, !.result = NoResult]
  IN IF ~config.circuitBreaker THEN ExecuteInternal(fresh, sig, th)
     ELSE LET verdict == canExecute(r.breaker, config.breakerConfig, now)
              changed == r.lastCircuitState # verdict.breaker.state
              told == [fresh EXCEPT !.breaker = verdict.breaker,
                                    !.fired = IF changed
                                              THEN {"onCircuitStateChange"}
                                              ELSE {}]
              seen == [told EXCEPT !.lastCircuitState = verdict.breaker.state]
          IN IF changed /\ tryStateChangeHook(th) = "thrown" THEN RunRejects(told)
             ELSE IF ~verdict.allowed
             THEN [seen EXCEPT !.pc = "done", !.result = CircuitOpenResult]
             ELSE ExecuteInternal(seen, sig, th)

\* the retry delay has passed: the next attempt invokes the task
NextAttempt(r) ==
  [r EXCEPT !.pc = "inflight", !.totalAttempts = r.attempt,
            !.taskCalls = @ + 1]

\* what no step of the comparison changes
HookFrame ==
  /\ UNCHANGED <<config, throwing, breaker, lastCircuitState>>
  /\ UNCHANGED callVars
  /\ UNCHANGED breakerVars
  /\ UNCHANGED batchVars
  /\ UNCHANGED pureVars

HookInit ==
  /\ config \in HookConfigs
  /\ throwing \in { {h} : h \in HookNames } \cup {HookNames}
  /\ twin = [k \in Twins |-> NewTwin]
  /\ signal = "none"
  /\ EngineOnly
  /\ suspended = EmptyBag
  /\ lastReturn = NoReturn
  /\ overlap = FALSE
  /\ unreported = <<>>
  /\ misreported = FALSE
  /\ reported = NoReport
  /\ failuresSince = 0
  /\ admittedInEpisode = 0
  /\ calls = 0
  /\ breaker = NewBreaker
  /\ lastCircuitState = "closed"
  /\ now = 0
  /\ pc = "idle"
  /\ attempt = 0
  /\ totalAttempts = 0
  /\ lastError = Null
  /\ retryHistory = <<>>
  /\ taskCalls = 0
  /\ attemptLog = <<>>
  /\ returned = "null"
  /\ cancelledAt = "never"
  /\ sleepRejected = FALSE
  /\ result = NoResult
  /\ hooks = NoHooks
  /\ timerDue = FALSE
  /\ listeners = NoListeners

\* run(task, {signal}) is called on both engines
TwinRun(sig) ==
  /\ \A k \in Twins : twin[k].pc \in {"idle", "done"}
  /\ calls < MaxCalls
  /\ calls' = calls + 1
  /\ signal' = sig
  /\ twin' = [k \in Twins |-> StartCall(twin[k], sig, Throws(k))]
  /\ UNCHANGED now
  /\ HookFrame

\* the task's current attempt fulfils with v
TwinTaskResolves(v) ==
  /\ \E k \in Twins : twin[k].pc = "inflight"
  /\ twin' = [k \in Twins |->
                IF twin[k].pc = "inflight"
                THEN AttemptResolved(twin[k], v, signal, Throws(k))
                ELSE twin[k]]
  /\ UNCHANGED <<calls, signal, now>>
  /\ HookFrame

\* the task's current attempt rejects with raw
TwinTaskRejects(raw) ==
  /\ \E k \in Twins : twin[k].pc = "inflight"
  /\ raw \in TaskRejections(signal)
  /\ twin' = [k \in Twins |->
                IF twin[k].pc = "inflight"
                THEN AttemptFailed(twin[k], raw, signal, Throws(k))
                ELSE twin[k]]
  /\ UNCHANGED <<calls, signal, now>>
  /\ HookFrame

\* the retry delay has passed
TwinSleepElapses ==
  /\ \E k \in Twins : twin[k].pc = "sleeping"
  /\ signal # "aborted"
  /\ twin' = [k \in Twins |->
                IF twin[k].pc = "sleeping" THEN NextAttempt(twin[k])
                ELSE twin[k]]
  /\ UNCHANGED <<calls, signal, now>>
  /\ HookFrame

\* the caller cancels the signal: a retry sleep rejects, an attempt without
\* timeout goes on
TwinSignalFires ==
  /\ signal = "live"
  /\ \E k \in Twins : twin[k].pc \in {"inflight", "sleeping"}
  /\ signal' = "aborted"
  /\ twin' = [k \in Twins |->
                IF twin[k].pc = "sleeping"
                THEN OuterCatch(twin[k], AbortDOMException, Throws(k))
                ELSE twin[k]]
  /\ UNCHANGED <<calls, now>>
  /\ HookFrame

\* Date.now() advances between calls
TwinClockTick ==
  /\ \A k \in Twins : twin[k].pc \in {"idle", "done"}
  /\ now < MaxClock
  /\ now' = now + 1
  /\ UNCHANGED <<calls, signal, twin>>
  /\ HookFrame

HookNext ==
  \/ \E sig \in {"none", "live", "aborted"} : TwinRun(sig)
  \/ \E v \in {"v1"} : TwinTaskResolves(v)
  \/ \E raw \in {PlainError, AbortDOMException} : TwinTaskRejects(raw)
  \/ TwinSleepElapses
  \/ TwinSignalFires
  \/ TwinClockTick

HookSpec == HookInit /\ [][HookNext]_vars

\* the same pair of engines, the first with one user callback that throws
\* whenever the engine calls it
CallbackInit ==
  /\ config \in HookConfigs
  /\ throwing \in { {c} : c \in CallbackNames }
  /\ twin = [k \in Twins |-> NewTwin]
  /\ signal = "none"
  /\ EngineOnly
  /\ suspended = EmptyBag
  /\ lastReturn = NoReturn
  /\ overlap = FALSE
  /\ unreported = <<>>
  /\ misreported = FALSE
  /\ reported = NoReport
  /\ failuresSince = 0
  /\ admittedInEpisode = 0
  /\ calls = 0
  /\ breaker = NewBreaker
  /\ lastCircuitState = "closed"
  /\ now = 0
  /\ pc = "idle"
  /\ attempt = 0
  /\ totalAttempts = 0
  /\ lastError = Null
  /\ retryHistory = <<>>
  /\ taskCalls = 0
  /\ attemptLog = <<>>
  /\ returned = "null"
  /\ cancelledAt = "never"
  /\ sleepRejected = FALSE
  /\ result = NoResult
  /\ hooks = NoHooks
  /\ timerDue = FALSE
  /\ listeners = NoListeners

CallbackSpec == CallbackInit /\ [][HookNext]_vars

\* ------------------------------------------- functions applied on their own
\* no engine is running: every variable of the engine is at rest
IdleEngine ==
  /\ HookVarsAtRest
  /\ BatchVarsAtRest
  /\ suspended = EmptyBag
  /\ lastReturn = NoReturn
  /\ overlap = FALSE
  /\ unreported = <<>>
  /\ misreported = FALSE
  /\ reported = NoReport
  /\ failuresSince = 0
  /\ admittedInEpisode = 0
  /\ calls = 0
  /\ breaker = NewBreaker
  /\ lastCircuitState = "closed"
  /\ now = 0
  /\ signal = "none"
  /\ pc = "idle"
  /\ attempt = 0
  /\ totalAttempts = 0
  /\ lastError = Null
  /\ retryHistory = <<>>
  /\ taskCalls = 0
  /\ attemptLog = <<>>
  /\ returned = "null"
  /\ cancelledAt = "never"
  /\ sleepRejected = FALSE
  /\ result = NoResult
  /\ hooks = NoHooks
  /\ timerDue = FALSE
  /\ listeners = NoListeners

\* applying a function changes nothing but its output
PureFrame ==
  /\ UNCHANGED <<config, calls, signal, breaker, lastCircuitState, now, input>>
  /\ UNCHANGED callVars
  /\ UNCHANGED breakerVars
  /\ UNCHANGED batchVars
  /\ UNCHANGED hookVars

\* the options of an engine with everything left at its default
DefaultOptions ==
  [maxRetries |-> 0, timeout |-> FALSE, ignoreAbort |-> TRUE,
   shouldRetry |-> FALSE, toError |-> FALSE, rulesMode |-> "extend",
   rules |-> <<>>, mapError |-> FALSE, circuitBreaker |-> FALSE,
   breakerConfig |-> [failureThreshold |-> 0, resetTimeout |-> 0,
                      halfOpenRequests |-> 0]]

\* ---- runOrThrow / orThrow / allOrThrow
\* Results run can return
ResultSamples ==
  { SuccessResult("v1", 1, <<>>),
    SuccessResult("v2", 2, <<[attempt |-> 1, error |-> TypedErr("UNKNOWN", FALSE)]>>),
    FailureResult(TypedErr("UNKNOWN", FALSE), 1, <<>>),
    FailureResult(TypedErr("MAPPED", FALSE), 1, <<>>),
    FailureResult(TypedErr("TIMEOUT", TRUE), 1, <<>>),
    FailureResult(TypedErr("ABORTED", FALSE), 1, <<>>),
    CircuitOpenResult }

\* the arrays all can return, up to MaxTasks long
RECURSIVE ResultArrays(_)
ResultArrays(n) ==
  IF n = 0 THEN { <<>> }
  ELSE ResultArrays(n - 1)
       \cup { Append(a, r) : a \in { b \in ResultArrays(n - 1) : Len(b) = n - 1 },
                             r \in ResultSamples }

\* orThrow, given the Result r of its run call
orThrow(r) ==
  IF r.ok THEN [thrown |-> FALSE, value |-> r.data]
  ELSE [thrown |-> TRUE, value |-> r.error]

\* results.map((r) => { if (!r.ok) throw r.error; return r.data }), from
\* element k on, with the data collected so far
RECURSIVE MapOrThrow(_, _, _)
MapOrThrow(results, k, acc) ==
  IF k > Len(results) THEN [thrown |-> FALSE, value |-> acc]
  ELSE IF ~results[k].ok THEN [thrown |-> TRUE, value |-> results[k].error]
  ELSE MapOrThrow(results, k + 1, Append(acc, results[k].data))

\* variant: the last non-success error is the one thrown
allOrThrowLast(results) ==
  LET bad == { k \in 1 .. Len(results) : ~results[k].ok } IN
  IF bad = {} THEN MapOrThrow(results, 1, <<>>)
  ELSE [thrown |-> TRUE,
        value |-> results[CHOOSE k \in bad : \A j \in bad : j <= k].error]
\* allOrThrow, given the array all returned
allOrThrow(results) == MapOrThrow(results, 1, <<>>)

OrThrowInit ==
  /\ config = DefaultOptions
  /\ input \in { [fn |-> "orThrow", results |-> <<r>>] : r \in ResultSamples }
         \cup { [fn |-> "allOrThrow", results |-> a] : a \in ResultArrays(MaxTasks) }
  /\ output = <<>>
  /\ IdleEngine

\* orThrow settles
OrThrow ==
  /\ output = <<>>
  /\ input.fn = "orThrow"
  /\ output' = <<orThrow(input.results[1])>>
  /\ PureFrame

\* allOrThrow settles
AllOrThrow ==
  /\ output = <<>>
  /\ input.fn = "allOrThrow"
  /\ output' = <<allOrThrow(input.results)>>
  /\ PureFrame

OrThrowNext == OrThrow \/ AllOrThrow

OrThrowSpec == OrThrowInit /\ [][OrThrowNext]_vars

\* ---------------------------------------------------- the normalizer alone
\* the rules a caller may declare
UserRules == {"userCancelled", "userCustom", "userWrapped"}

\* the rule lists of at most n rules, each rule declared once
RuleLists(n) ==
  { l \in UNION { [1..k -> UserRules] : k \in 0..n } :
      \A i, j \in 1..Len(l) : i # j => l[i] # l[j] }

\* what the normalizer is applied to
ThrownSamples == {AbortDOMException, PlainError, Http404, AbortedRetryable,
                  TimeoutErrorTyped, StringCustom, NamedTimeout}

\* tryo({ rules, rulesMode }) and a value a task threw
NormalizerInit ==
  /\ config \in { [DefaultOptions EXCEPT !.rulesMode = m, !.rules = l] :
                    m \in {"extend", "replace"}, l \in RuleLists(MaxRules) }
  /\ input \in { [fn |-> "normalizer", raw |-> raw] : raw \in ThrownSamples }
  /\ output = <<>>
  /\ IdleEngine

\* errorHandling.normalizer(err)
Normalize ==
  /\ output = <<>>
  /\ output' = <<buildNormalizer(config, input.raw)>>
  /\ PureFrame

NormalizerNext == Normalize

NormalizerSpec == NormalizerInit /\ [][NormalizerNext]_vars

\* ------------------------------------------------------------ construction
\* rule.__tryoCode: the code a rule was tagged with when it was built, by
\* toCode(code).with(...) or from the literal code in a toError mapper
tryoCode(rule) ==
  CASE rule = "userCancelled" -> "CANCELLED"
    [] rule = "userCustom" -> "CUSTOM_ERROR"
    [] rule = "userWrapped" -> "WRAPPED"
    [] rule = "dupA" -> "DUPLICATE"
    [] rule = "dupB" -> "DUPLICATE"

\* the rules a caller may hand to the constructor
DeclaredRules == UserRules \cup {"dupA", "dupB"}

\* the lists of at most n distinct declared rules
DeclaredRuleLists(n) ==
  { l \in UNION { [1..k -> DeclaredRules] : k \in 0..n } :
      \A i, j \in 1..Len(l) : i # j => l[i] # l[j] }

\* options without a retry section
NoRetry == [type |-> "none", delay |-> 0, base |-> 0, factor |-> 0, maxDelay |-> 0]

\* RetryStrategies.fixed(delay)
FixedStrategy(d) ==
  [type |-> "fixed", delay |-> d, base |-> 0, factor |-> 0, maxDelay |-> 0]
\* RetryStrategies.exponential(base, factor)
ExponentialStrategy(b, f) ==
  [type |-> "exponential", delay |-> 0, base |-> b, factor |-> f, maxDelay |-> 0]
\* RetryStrategies.fibonacci(base, maxDelay), maxDelay 0 when it is left out
FibonacciStrategy(b, c) ==
  [type |-> "fibonacci", delay |-> 0, base |-> b, factor |-> 0, maxDelay |-> c]

\* the retry strategies a caller may configure
StrategySamples ==
  { FixedStrategy(d) : d \in 0..MaxBase }
    \cup { ExponentialStrategy(b, f) : b \in 0..1, f \in 1..2 }
    \cup { FibonacciStrategy(b, c) : b \in 0..1, c \in 0..1 }

\* validateStrategy(strategy): the message of the Error it throws, or
\* "valid" when it returns
validateStrategy(strategy) ==
  CASE strategy.type = "fixed" ->
         IF strategy.delay <= 0 THEN "Fixed delay must be positive" ELSE "valid"
    [] strategy.type = "exponential" ->
         IF strategy.base <= 0 THEN "Exponential base delay must be positive"
         ELSE IF strategy.factor <= 1
         THEN "Exponential factor must be greater than 1"
         ELSE IF strategy.maxDelay # 0 /\ strategy.maxDelay <= 0
         THEN "Exponential max delay must be positive"
         ELSE "valid"
    [] strategy.type = "fibonacci" ->
         IF strategy.base <= 0 THEN "Fibonacci base delay must be positive"
         ELSE IF strategy.maxDelay # 0 /\ strategy.maxDelay <= 0
         THEN "Fibonacci max delay must be positive"
         ELSE "valid"

\* normalizeExecutionConfig(config): if (normalized.retry) the strategy is
\* validated; the message of what it throws, or "valid"
normalizeExecutionConfig(opts) ==
  IF opts.retry.type # "none" THEN validateStrategy(opts.retry) ELSE "valid"

\* new TryoEngine(options): the normalizer is built from the options, the
\* execution config is normalized and the breaker is created; nothing reads
\* the rules' code tags
constructor(opts) ==
  IF normalizeExecutionConfig(opts) # "valid" THEN normalizeExecutionConfig(opts)
  ELSE "constructed"

\* the options tryo(...) is called with
ConstructInit ==
  /\ config = DefaultOptions
  /\ input \in { [fn |-> "constructor",
                  options |-> [DefaultOptions EXCEPT !.rulesMode = m,
                                                     !.rules = l,
                                                     !.toError = te]
                                @@ [retry |-> r]] :
                   m \in {"extend", "replace"}, te \in BOOLEAN,
                   l \in DeclaredRuleLists(MaxRules),
                   r \in {NoRetry} \cup StrategySamples }
  /\ output = <<>>
  /\ IdleEngine

\* tryo(options) returns or throws
Construct ==
  /\ output = <<>>
  /\ output' = <<constructor(input.options)>>
  /\ PureFrame

ConstructNext == Construct

ConstructSpec == ConstructInit /\ [][ConstructNext]_vars

\* ------------------------------------------------------------ retry delays
\* the loop of fibonacci: for (let i = 2; i <= n; i++) { next = prev + curr;
\* prev = curr; curr = next }
RECURSIVE FibonacciLoop(_, _, _, _)
FibonacciLoop(i, n, prev, curr) ==
  IF i <= n THEN FibonacciLoop(i + 1, n, curr, prev + curr) ELSE curr

\* fibonacci(n)
fibonacci(n) == IF n <= 1 THEN 1 ELSE FibonacciLoop(2, n, 1, 1)

\* calculateDelay(strategy, attempt, error) for a fibonacci strategy; a
\* maxDelay of 0 stands for one that is absent, both being falsy
calculateDelay(strategy, n) ==
  LET fibDelay == strategy.base * fibonacci(n)
  IN IF strategy.maxDelay # 0 THEN MathMin(fibDelay, strategy.maxDelay)
     ELSE fibDelay

\* RetryStrategies.fibonacci(base, maxDelay?) and the attempt that failed
DelayInit ==
  /\ config = DefaultOptions
  /\ input \in { [fn |-> "calculateDelay",
                  strategy |-> [type |-> "fibonacci", base |-> b, maxDelay |-> c],
                  attempt |-> n] :
                   b \in 1..MaxBase, c \in 0..MaxDelayCap, n \in 1..MaxAttemptNumber }
  /\ output = <<>>
  /\ IdleEngine

\* const baseDelayMs = calculateDelay(retry.strategy, attempt, mapped)
CalculateDelay ==
  /\ output = <<>>
  /\ output' = <<calculateDelay(input.strategy, input.attempt)>>
  /\ PureFrame

DelayNext == CalculateDelay

DelaySpec == DelayInit /\ [][DelayNext]_vars

\* ================================================================== claims
\* a Result has been returned by the current run call
Returned == pc = "done" /\ result.type # "none"

StrictlyIncreasing(h) ==
  \A i \in 1..Len(h) : \A j \in 1..Len(h) : i < j => h[i].attempt < h[j].attempt

\* C1: every Result returned by run has ok = (type = 'success'), error = null
\* exactly when ok, and data = null whenever not ok.
C1_ResultDiscrimination ==
  Returned =>
    /\ result.ok = (result.type = "success")
    /\ (result.error = Null) = result.ok
    /\ (~result.ok => result.data = "null")

\* C1 witness: the breaker has rejected a call after an aborted call was
\* recorded, so rejected, aborted and discriminated Results all occurred.
C1_Witness ==
  /\ Returned
  /\ result.error.code = "CIRCUIT_OPEN"
  /\ ~result.ok
  /\ calls >= 2

\* C2: type = 'aborted' implies error.code = 'ABORTED' and type = 'timeout'
\* implies error.code = 'TIMEOUT', under every normalizer configuration.
C2_AbortedTimeoutCodes ==
  Returned =>
    /\ (result.type = "aborted" => result.error.code = "ABORTED")
    /\ (result.type = "timeout" => result.error.code = "TIMEOUT")

\* C3: totalRetries = max(0, totalAttempts - 1), retryHistory.length =
\* totalRetries and retryHistory is in strictly increasing attempt order,
\* however the call ended.
C3_MetricTotals ==
  Returned =>
    /\ result.totalRetries =
         (IF result.totalAttempts - 1 > 0 THEN result.totalAttempts - 1 ELSE 0)
    /\ Len(result.retryHistory) = result.totalRetries
    /\ StrictlyIncreasing(result.retryHistory)

\* C4: an attempt whose error has code ABORTED is the last attempt of its
\* call: no attempt follows it, shouldRetry is not consulted for it and no
\* retryHistory entry is added for it.
C4_AbortedNeverRetried ==
  \A i \in 1..Len(attemptLog) :
    attemptLog[i].error.code = "ABORTED" =>
      /\ i = Len(attemptLog)
      /\ taskCalls = i
      /\ pc = "done"
      /\ attemptLog[i].shouldRetry = "notCalled"
      /\ \A j \in 1..Len(retryHistory) : retryHistory[j].attempt # i
      /\ \A j \in 1..Len(result.retryHistory) : result.retryHistory[j].attempt # i

\* C4 witness: an ABORTED error flagged retryable ended a call that had
\* retries left and a shouldRetry predicate configured.
C4_Witness ==
  /\ Returned
  /\ Len(attemptLog) >= 1
  /\ attemptLog[Len(attemptLog)].error = TypedErr("ABORTED", TRUE)
  /\ config.shouldRetry
  /\ Len(attemptLog) <= config.maxRetries

\* C5: an attempt whose error has retryable = false is never followed by
\* another attempt, and no retry is scheduled for it.
C5_NonRetryableNeverRetried ==
  \A i \in 1..Len(attemptLog) :
    ~attemptLog[i].error.retryable =>
      /\ i = Len(attemptLog)
      /\ taskCalls = i
      /\ \A j \in 1..Len(retryHistory) : retryHistory[j].attempt # i

\* C6: attempt k+1 starts only after attempt k failed with a non-ABORTED
\* error, k <= maxRetries and shouldRetry (when supplied) returned true; the
\* task is invoked at most maxRetries + 1 times, and exactly that often when
\* every attempt fails with a retryable error and nothing vetoes or cancels.
C6_RetryBudget ==
  /\ taskCalls <= config.maxRetries + 1
  /\ \A k \in 1..(taskCalls - 1) :
       /\ Len(attemptLog) >= k
       /\ attemptLog[k].error.code # "ABORTED"
       /\ k <= config.maxRetries
       /\ (config.shouldRetry => attemptLog[k].shouldRetry = "true")
  /\ ( /\ Returned
       /\ taskCalls >= 1
       /\ Len(attemptLog) = taskCalls
       /\ \A i \in 1..Len(attemptLog) :
            /\ attemptLog[i].error.retryable
            /\ attemptLog[i].error.code # "ABORTED"
            /\ attemptLog[i].shouldRetry # "false"
       /\ cancelledAt = "never" )
     => /\ taskCalls = config.maxRetries + 1
        /\ result.totalAttempts = config.maxRetries + 1
        /\ result.totalRetries = config.maxRetries

\* C6 witness: a call with the largest retry budget and a shouldRetry
\* predicate used the whole budget and failed.
C6_Witness ==
  /\ Returned
  /\ config.maxRetries = MaxRetriesBound
  /\ config.shouldRetry
  /\ taskCalls = config.maxRetries + 1
  /\ Len(attemptLog) = taskCalls
  /\ \A i \in 1..Len(attemptLog) : attemptLog[i].error.retryable
  /\ cancelledAt = "never"
  /\ result.type = "failure"

\* C7: without cancellation, a task that fails with retryable errors on its
\* first k - 1 invocations and returns a value on the k-th yields a success
\* Result with that value, totalAttempts = k, totalRetries = k - 1 and
\* retryHistory attempts 1, ..., k - 1.
C7_SuccessOnKth ==
  ( /\ Returned
    /\ returned # "null"
    /\ cancelledAt = "never"
    /\ config.maxRetries >= taskCalls - 1
    /\ \A i \in 1..Len(attemptLog) : attemptLog[i].error.retryable )
  => /\ result.type = "success"
     /\ result.ok
     /\ result.data = returned
     /\ result.totalAttempts = taskCalls
     /\ result.totalRetries = taskCalls - 1
     /\ Len(result.retryHistory) = taskCalls - 1
     /\ \A j \in 1..Len(result.retryHistory) : result.retryHistory[j].attempt = j

\* C7 witness: the task failed twice with retryable errors and returned a
\* value on its third invocation.
C7_Witness ==
  /\ Returned
  /\ returned = "v2"
  /\ taskCalls = 3
  /\ Len(attemptLog) = 2
  /\ \A i \in 1..Len(attemptLog) : attemptLog[i].error.retryable
  /\ cancelledAt = "never"

\* C8: with the caller's signal already cancelled when run is called, the
\* task is never invoked and the call returns an aborted Result with
\* error.code ABORTED, totalAttempts = 0, totalRetries = 0 and an empty
\* retryHistory.
C8_AlreadyCancelled ==
  cancelledAt = "before" =>
    /\ taskCalls = 0
    /\ (Returned =>
          /\ result.type = "aborted"
          /\ result.error.code = "ABORTED"
          /\ result.totalAttempts = 0
          /\ result.totalRetries = 0
          /\ result.retryHistory = <<>>)

\* C9: when the caller's signal cancels a retry sleep (by firing during it
\* or by being cancelled already when it begins), the call returns a Result
\* of type 'aborted' whose error has code ABORTED.
C9_SleepCancelReturnsAborted ==
  (Returned /\ sleepRejected) =>
    /\ result.type = "aborted"
    /\ result.error.code = "ABORTED"

\* C10: once the caller's signal has fired, no new attempt of the task is
\* started in that run call, and a cancelled retry sleep ends the loop.
C10_NoAttemptAfterCancel ==
  [][ /\ (signal' = "aborted" /\ calls' = calls) => taskCalls' = taskCalls
      /\ sleepRejected' => pc' = "done" ]_vars

\* C10 witness: the signal fired during the retry sleep after the first
\* attempt, with retries left, and the call ended without a second attempt.
C10_Witness ==
  /\ Returned
  /\ cancelledAt = "sleeping"
  /\ sleepRejected
  /\ taskCalls = 1
  /\ config.maxRetries >= 1

\* C11: when the caller's signal fires while an attempt is in flight, run
\* stops waiting for the task and returns an aborted Result (error.code
\* ABORTED, totalAttempts counting that attempt), whether or not a timeout
\* is configured and whatever the task does afterwards.
C11_AbortInFlightReturnsAborted ==
  cancelledAt = "inflight" =>
    /\ Returned
    /\ result.type = "aborted"
    /\ result.error.code = "ABORTED"
    /\ result.totalAttempts = taskCalls

\* attempt i of the current call was followed by a scheduled retry
RetryScheduledFor(i) ==
  \E j \in 1..Len(retryHistory) : retryHistory[j].attempt = i

\* what the timeout demands of the attempts finished so far
TimedOutAttemptsHandled ==
  \A i \in 1..Len(attemptLog) :
    attemptLog[i].timedOut =>
      /\ attemptLog[i].error.code = "TIMEOUT"
      /\ RetryScheduledFor(i) <=>
           (i <= config.maxRetries /\ attemptLog[i].shouldRetry # "false")
      /\ (Returned /\ i = Len(attemptLog) /\ taskCalls = i) =>
           (result.type = "timeout" /\ result.error.code = "TIMEOUT")

KeepsTimeoutCode ==
  NormalizeAndMap(config, TimeoutErrorTyped).code = "TIMEOUT"

CallIssued == calls' = calls + 1

\* a run call returns in this step without having been admitted
RejectedReturn ==
  /\ \E c \in BagToSet(suspended) :
       c.pc = "canExecute" /\ ~c.allowed /\ suspended' = suspended (-) SetToBag({c})
  /\ lastReturn'.result.type = "failure"
  /\ lastReturn'.result.error.code = "CIRCUIT_OPEN"
  /\ lastReturn'.result.totalAttempts = 0
  /\ ~lastReturn'.invoked

\* a run call returns in this step
CallReturns == BagCardinality(suspended') < BagCardinality(suspended)

\* C13: with failureThreshold = N and calls made one after another, the
\* breaker has left closed exactly when N counted failures have been
\* recorded since the last success (it opens at the N-th, and a success
\* resets the count); a call made while it is open and resetTimeout has not
\* elapsed returns a failure Result with code CIRCUIT_OPEN and
\* totalAttempts = 0 without invoking its task.
C13_OpensAtThreshold ==
  [][ ~overlap =>
        /\ (breaker'.state = "closed") <=>
             (failuresSince' < config.breakerConfig.failureThreshold)
        /\ (breaker.state = "closed" /\ breaker'.state = "open") =>
             failuresSince' = config.breakerConfig.failureThreshold
        /\ (CallIssued /\ breaker.state = "open"
              /\ now < breaker.nextAttemptTime) =>
             /\ breaker'.state = "open"
             /\ \A c \in BagToSet(suspended') : c.pc = "canExecute" /\ ~c.allowed
        /\ (CallReturns /\ breaker.state = "open"
              /\ \A c \in BagToSet(suspended) : c.pc = "canExecute") =>
             RejectedReturn ]_vars

\* C13 witness: with threshold 2, two failing calls opened the breaker and
\* the next call, made before resetTimeout elapsed, was rejected.
C13_Witness ==
  /\ ~overlap
  /\ config.breakerConfig.failureThreshold = 2
  /\ failuresSince = 2
  /\ breaker.state = "open"
  /\ now < breaker.nextAttemptTime
  /\ calls = 3
  /\ suspended = EmptyBag
  /\ lastReturn.result.error.code = "CIRCUIT_OPEN"
  /\ lastReturn.result.totalAttempts = 0
  /\ ~lastReturn.invoked

\* the call issued in this step was admitted (TRUE) or rejected (FALSE)
IssuedWith(verdict) ==
  /\ CallIssued
  /\ \E p \in BOOLEAN :
       suspended' = suspended (+)
         SetToBag({AsProbe(AwaitingCanExecute(lastCircuitState, verdict), p)})

\* a call that was not admitted returns in this step
RejectedCallReturns ==
  \E c \in BagToSet(suspended) :
    c.pc = "canExecute" /\ ~c.allowed /\ suspended' = suspended (-) SetToBag({c})

\* C14: once resetTimeout has elapsed the next admission moves the breaker
\* from open to half-open; while it stays half-open at most halfOpenRequests
\* calls are admitted, every further call (also one issued while a probe is
\* still in flight) is rejected, and a rejected call returns CIRCUIT_OPEN
\* without invoking its task.
C14_HalfOpenBudget ==
  [][ /\ (CallIssued /\ breaker.state = "open"
            /\ now >= breaker.nextAttemptTime) =>
           /\ breaker'.state = "half-open"
           /\ admittedInEpisode' = 1
           /\ IssuedWith(TRUE)
      /\ breaker'.state = "half-open" =>
           admittedInEpisode' <= config.breakerConfig.halfOpenRequests
      /\ (CallIssued /\ breaker.state = "half-open"
            /\ admittedInEpisode = config.breakerConfig.halfOpenRequests) =>
           /\ IssuedWith(FALSE)
           /\ breaker' = breaker
      /\ (CallIssued /\ breaker.state = "open"
            /\ now < breaker.nextAttemptTime) => IssuedWith(FALSE)
      /\ RejectedCallReturns =>
           /\ lastReturn'.result.type = "failure"
           /\ lastReturn'.result.error.code = "CIRCUIT_OPEN"
           /\ lastReturn'.result.totalAttempts = 0
           /\ ~lastReturn'.invoked ]_vars

\* C14 witness: with a budget of one probe, a call issued after the probe
\* had started (it read lastCircuitState = half-open) has been refused by
\* canExecute while the probe is still in flight.
C14_Witness ==
  /\ overlap
  /\ config.breakerConfig.halfOpenRequests = 1
  /\ breaker.state = "half-open"
  /\ admittedInEpisode = 1
  /\ suspended = SetToBag({AsProbe(AwaitingExecute, TRUE),
                           AwaitingCanExecute("half-open", FALSE)})

\* the outcome r of a call is recorded in this step
Recorded(r) ==
  \E c \in BagToSet(suspended) :
    /\ c.pc = "executing"
    /\ suspended' =
         Resume(c, AsProbe(AwaitingRecord(lastCircuitState, r), c.probe))

\* C15: in half-open, a recorded success closes the breaker with failure
\* count and probe count zero, so that with failureThreshold > 1 a single
\* later failure leaves it closed; a counted failure reopens it with
\* nextAttemptTime = now + resetTimeout.
C15_HalfOpenOutcome ==
  [][ \A r \in Outcomes :
        Recorded(r) =>
          /\ (breaker.state = "half-open" /\ r.ok) =>
               /\ breaker'.state = "closed"
               /\ breaker'.failureCount = 0
               /\ breaker'.halfOpenCount = 0
          /\ (breaker.state = "half-open" /\ ~r.ok /\ shouldCount(config, r.error)) =>
               /\ breaker'.state = "open"
               /\ breaker'.nextAttemptTime = now + config.breakerConfig.resetTimeout
          /\ (breaker = NewBreaker /\ ~r.ok
                /\ config.breakerConfig.failureThreshold > 1) =>
               /\ breaker'.state = "closed"
               /\ breaker'.failureCount <= 1 ]_vars

\* C15 witness: with threshold 2, the probe's success has just been
\* recorded in half-open and the breaker is closed with both counts zero.
C15_Witness ==
  /\ config.breakerConfig.failureThreshold = 2
  /\ calls = 3
  /\ lastCircuitState = "half-open"
  /\ \E r \in Outcomes :
       r.ok /\ suspended = SetToBag({AsProbe(AwaitingRecord("half-open", r), TRUE)})
  /\ breaker = NewBreaker

\* C17: when shouldCountAsFailure(error) returns false for a failed call,
\* recording that failure leaves the breaker's state, failure count,
\* half-open probe count, lastFailureTime and nextAttemptTime unchanged.
C17_UncountedFailureFrame ==
  [][ \A r \in Outcomes :
        (Recorded(r) /\ ~r.ok /\ config.shouldCountAsFailure
           /\ r.error.code = "VALIDATION") =>
          /\ breaker'.state = breaker.state
          /\ breaker'.failureCount = breaker.failureCount
          /\ breaker'.halfOpenCount = breaker.halfOpenCount
          /\ breaker'.lastFailureTime = breaker.lastFailureTime
          /\ breaker'.nextAttemptTime = breaker.nextAttemptTime ]_vars

\* C17 witness: a probe failed with an error the filter exempts; the
\* failure has been recorded and the breaker is still half-open with the
\* probe counted and its earlier failure time.
C17_Witness ==
  /\ config.shouldCountAsFailure
  /\ ~overlap
  /\ suspended =
       SetToBag({AsProbe(AwaitingRecord("half-open",
                                        FailureResult(ValidationError, 1, <<>>)),
                         TRUE)})
  /\ breaker.state = "half-open"
  /\ breaker.halfOpenCount = 1
  /\ breaker.lastFailureTime < now

\* C16: every change of the breaker's state is reported to
\* onCircuitStateChange as (from, to), in the order the changes occur: no
\* report differs from the oldest change still to be reported, and once
\* every call has returned no change is left unreported.
C16_ChangesReportedInOrder ==
  /\ ~misreported
  /\ suspended = EmptyBag => unreported = <<>>

C19_EveryTaskInvoked ==
  batch.phase = "done" =>
    /\ DOMAIN out = Indices
    /\ \A i \in Indices :
         /\ out[i] # NoResult
         /\ out[i] = slots[i].result
         /\ out[i].ok => out[i].data = TaskValue(i)
         /\ signal # "aborted" => slots[i].invoked >= 1

\* C19, amended: all(tasks) returns an array of length tasks.length whose
\* slot i holds the Result run returned for tasks[i], with every slot
\* populated: run has been called once for every task whatever became of the
\* others, the Result counts the task's invocations, and a task was left
\* uninvoked only by the circuit breaker rejecting its call or by the
\* caller's signal having fired.
C19_EveryTaskHandedToRun ==
  batch.phase = "done" =>
    /\ DOMAIN out = Indices
    /\ \A i \in Indices :
         /\ slots[i].pc = "returned"
         /\ out[i] # NoResult
         /\ out[i] = slots[i].result
         /\ out[i].ok => out[i].data = TaskValue(i)
         /\ out[i].totalAttempts = slots[i].invoked
         /\ slots[i].invoked = 0 =>
              \/ config.circuitBreaker /\ out[i] = CircuitOpenResult
              \/ signal = "aborted" /\ out[i].type = "aborted"

\* C19 witness: a batch of three tasks on two workers has returned with the
\* signal never fired: task 0 failed after its retry, which opened the
\* breaker, task 1 succeeded, and task 2 was rejected without being invoked.
C19_Witness ==
  /\ batch.phase = "done"
  /\ signal = "live"
  /\ config.concurrency = 2
  /\ config.tasks = 3
  /\ out[0].type = "failure" /\ out[0].totalAttempts = 2
  /\ out[1].ok /\ out[1].data = TaskValue(1)
  /\ out[2] = CircuitOpenResult /\ slots[2].invoked = 0

\* C20: when the caller's signal fires during a bounded-concurrency batch,
\* no task at an index that no worker had taken is invoked, and in the
\* returned array every such slot holds an aborted Result with error.code
\* ABORTED and totalAttempts 0, whatever the engine's configuration.
C20_UntakenSlotsAborted ==
  (batch.phase = "done" /\ config.concurrency # Infinity /\ untaken.fired) =>
    \A i \in untaken.indices :
      /\ slots[i].invoked = 0
      /\ out[i].type = "aborted"
      /\ out[i].error.code = "ABORTED"
      /\ out[i].totalAttempts = 0

\* ---------------------------------------------------- claims about hooks
\* C21: onFinally has fired exactly once in every run call that has
\* returned, whatever the outcome: success, failure, timeout, abort,
\* already-cancelled signal or circuit-breaker rejection.
C21_OnFinallyOnce ==
  Returned => hooks.onFinally = 1

\* C22: in every run call that has returned, onRetry has fired exactly
\* metrics.totalRetries times: once before each retry sleep, and not after
\* the last attempt of the call.
C22_OnRetryCount ==
  Returned => hooks.onRetry = result.totalRetries

\* the attempts of the current call that ended with an ABORTED error
AbortedAttempts ==
  { k \in 1 .. Len(attemptLog) : attemptLog[k].error.code = "ABORTED" }

\* the attempts of the current call that ended with another error
OtherFailedAttempts ==
  { k \in 1 .. Len(attemptLog) : attemptLog[k].error.code # "ABORTED" }

\* the current call took the already-cancelled short-circuit
ShortCircuited ==
  pc = "done" /\ result.type = "aborted" /\ result.totalAttempts = 0

\* C23: every attempt that ends with an ABORTED error fires onAbort, and
\* fires onError only when ignoreAbort is false; every attempt that ends
\* with another error fires onError exactly once; onAbort fires at most once
\* per run call (for the ABORTED attempt, or for the already-cancelled
\* short-circuit).
C23_AbortAndErrorHooks ==
  /\ hooks.onError = Cardinality(OtherFailedAttempts)
                       + (IF config.ignoreAbort THEN 0
                          ELSE Cardinality(AbortedAttempts))
  /\ hooks.onAbort = Cardinality(AbortedAttempts)
                       + (IF ShortCircuited THEN 1 ELSE 0)
  /\ hooks.onAbort <= 1

\* C23 witness: with ignoreAbort set, the first attempt failed with another
\* error and fired onError, the second ended ABORTED and fired onAbort only.
C23_Witness ==
  /\ config.ignoreAbort
  /\ pc = "done"
  /\ Len(attemptLog) = 2
  /\ attemptLog[1].error.code # "ABORTED"
  /\ attemptLog[2].error.code = "ABORTED"
  /\ hooks.onError = 1
  /\ hooks.onAbort = 1

\* C24: exceptions thrown by hooks and logger callbacks are swallowed: of two
\* engines that differ only in whether their callbacks throw and that are
\* given the same calls, task outcomes and signal, neither's run rejects and
\* both return the same Result (type, data or error, attempt counts,
\* retryHistory), invoke the task the same number of times and leave the
\* breaker in the same state.
C24_HookThrowsSwallowed ==
  /\ \A k \in Twins : ~twin[k].rejected
  /\ twin["throwing"].pc = twin["quiet"].pc
  /\ twin["throwing"].result = twin["quiet"].result
  /\ twin["throwing"].totalAttempts = twin["quiet"].totalAttempts
  /\ twin["throwing"].retryHistory = twin["quiet"].retryHistory
  /\ twin["throwing"].taskCalls = twin["quiet"].taskCalls
  /\ twin["throwing"].breaker = twin["quiet"].breaker
  /\ twin["throwing"].lastCircuitState = twin["quiet"].lastCircuitState

\* C24 witness: every callback throws; a call failed, was retried and failed
\* again, which opened the breaker: onError, onRetry, onFinally,
\* onCircuitStateChange and both logger callbacks were called and threw, and
\* the call returned its failure.
C24_Witness ==
  /\ throwing = HookNames
  /\ twin["throwing"].pc = "done"
  /\ twin["throwing"].result.type = "failure"
  /\ twin["throwing"].result.totalAttempts = 2
  /\ twin["throwing"].breaker.state = "open"
  /\ {"onError", "onRetry", "onFinally", "onCircuitStateChange",
      "logger.info", "logger.error"} \subseteq twin["throwing"].fired

\* --------------------------------------------- claims about error handling
\* C25: the promise returned by run never rejects: whatever the task does
\* and whichever user callback that is not a hook throws (toError, mapError,
\* shouldRetry, a custom strategy or jitter function, shouldCountAsFailure),
\* the call produces a Result.
C25_RunNeverRejects ==
  \A k \in Twins : ~twin[k].rejected

\* the indices of the non-success slots of the array given to allOrThrow
NonSuccess == { k \in 1 .. Len(input.results) : ~input.results[k].ok }

\* C26: orThrow returns result.data when run's Result is ok and otherwise
\* throws exactly result.error; allOrThrow throws the error of the
\* lowest-index non-success slot, or else returns the data in input order.
C26_OrThrow ==
  output # <<>> =>
    /\ input.fn = "orThrow" =>
         LET r == input.results[1] IN
         /\ output[1].thrown = ~r.ok
         /\ r.ok => output[1].value = r.data
         /\ ~r.ok => output[1].value = r.error
    /\ input.fn = "allOrThrow" =>
         /\ output[1].thrown = (NonSuccess # {})
         /\ NonSuccess = {} =>
              /\ Len(output[1].value) = Len(input.results)
              /\ \A k \in 1 .. Len(input.results) :
                   output[1].value[k] = input.results[k].data
         /\ NonSuccess # {} =>
              \E k \in NonSuccess :
                /\ \A j \in NonSuccess : k <= j
                /\ output[1].value = input.results[k].error

\* C26 witness: allOrThrow was given a success followed by two different
\* failures and threw the first failure's error.
C26_Witness ==
  /\ input.fn = "allOrThrow"
  /\ Len(input.results) = 3
  /\ input.results[1].ok
  /\ ~input.results[2].ok /\ ~input.results[3].ok
  /\ input.results[2].error # input.results[3].error
  /\ output # <<>>
  /\ output[1].thrown
  /\ output[1].value = input.results[2].error


\* C27: once run has returned, by whatever path, no listener of the engine
\* is attached to the caller's signal, to a composite signal or to an
\* attempt's signal; every composite signal's cleanup has run, and running
\* the cleanups once more leaves everything as it is.
C27_NoListenerLeft ==
  Returned =>
    /\ listeners.attached = {}
    /\ listeners.pending = {}
    /\ LeaveAttempt(listeners) = listeners

\* a call with a live signal and a timeout returned after a retry: the
\* caller's signal, both composite signals, withTimeout and sleep each had a
\* listener attached on the way
C27_Witness ==
  /\ Returned
  /\ signal = "live"
  /\ config.timeout
  /\ result.totalAttempts = 2
  /\ listeners = NoListeners


\* the rules the normalizer of the engine goes through, in order
C28_Rules ==
  IF config.rulesMode = "replace" THEN config.rules ELSE config.rules \o defaultRules
C28_Matching == {i \in 1..Len(C28_Rules) : ApplyRule(C28_Rules[i], input.raw) # Null}

\* C28: the rules are tried in declaration order and the first result that
\* is not null wins; with rulesMode 'replace' the built-in rules are not
\* consulted, so a thrown value that no user rule matches is normalized to
\* code UNKNOWN.
C28_FirstRuleWinsElseUnknown ==
  output # <<>> =>
    /\ C28_Matching # {} =>
         LET first == CHOOSE i \in C28_Matching : \A j \in C28_Matching : i <= j
         IN output[1] = ApplyRule(C28_Rules[first], input.raw)
    /\ (config.rulesMode = "replace" /\ C28_Matching = {}) =>
         output[1].code = "UNKNOWN"


\* C29: constructing an engine whose rule list holds two rules tagged with
\* the same error code fails with 'Duplicate rule code detected'.
C29_DuplicateCodeRejected ==
  LET rules == input.options.rules IN
  (/\ output # <<>>
   /\ \E i, j \in 1..Len(rules) : i # j /\ tryoCode(rules[i]) = tryoCode(rules[j]))
  => output[1] = "Duplicate rule code detected"


\* the Fibonacci numbers with F(1) = F(2) = 1
RECURSIVE C30_F(_)
C30_F(n) == IF n <= 2 THEN 1 ELSE C30_F(n - 1) + C30_F(n - 2)

\* C30: for the fibonacci strategy the base delay of attempt n is
\* min(base * F(n), cap), with F(1) = F(2) = 1 and F(n) = F(n-1) + F(n-2),
\* and base * F(n) where no cap is set.
C30_FibonacciDelay ==
  output # <<>> =>
    LET ideal == input.strategy.base * C30_F(input.attempt)
        cap == input.strategy.maxDelay
    IN output[1] = IF cap # 0 /\ cap < ideal THEN cap ELSE ideal


\* C31: a fixed strategy with delay 0 is valid configuration: the engine is
\* constructed without error.
C31_FixedZeroConstructs ==
  (output # <<>> /\ input.options.retry = FixedStrategy(0))
    => output[1] = "constructed"


\* the attempts ended by their timeout
C32_TimedOut == {i \in 1..Len(attemptLog) : attemptLog[i].timedOut}

C33_InLoop == {"inflight", "sleeping"}

\* C33: the breaker is notified exactly once per admitted run call, after
\* the attempt loop has ended: no step of the loop changes the breaker, and
\* the return of a call admitted by a closed breaker resets the failure
\* count when the call succeeded and raises it by exactly one when it
\* failed, however many attempts failed.
C33_OneRecordPerCall ==
  [][ config.circuitBreaker =>
        /\ (pc \in C33_InLoop /\ pc' \in C33_InLoop) => breaker' = breaker
        /\ (pc \in C33_InLoop /\ pc' = "done" /\ breaker.state = "closed") =>
             breaker'.failureCount =
               IF result'.ok THEN 0 ELSE breaker.failureCount + 1 ]_vars

\* C33 witness: a call that failed three attempts has returned and the
\* breaker, with threshold 2, has counted one failure and is still closed.
C33_Witness ==
  /\ Returned
  /\ config.circuitBreaker
  /\ ~result.ok
  /\ result.totalAttempts = 3
  /\ breaker.failureCount = 1
  /\ breaker.state = "closed"


\* C34: an admitted call that returns an aborted Result, the one whose task
\* was never invoked included, is recorded as a breaker failure: on a closed
\* breaker it raises the failure count by one, stamps the failure time and
\* opens the breaker exactly when the count reaches failureThreshold.
C34_AbortedCountsAsFailure ==
  [][ (/\ config.circuitBreaker
       /\ pc \in {"admitted", "inflight", "sleeping"}
       /\ pc' = "done"
       /\ result'.type = "aborted"
       /\ breaker.state = "closed") =>
        /\ breaker'.failureCount = breaker.failureCount + 1
        /\ breaker'.lastFailureTime = now
        /\ (breaker'.state = "open") =
             (breaker.failureCount + 1 >= config.breakerConfig.failureThreshold)
        /\ breaker'.state \in {"closed", "open"} ]_vars

\* C34 witness: with threshold 2 the second call found the caller's signal
\* already cancelled, returned an aborted Result without invoking its task,
\* and the breaker is open.
C34_Witness ==
  /\ Returned
  /\ config.circuitBreaker
  /\ config.breakerConfig.failureThreshold = 2
  /\ calls = 2
  /\ result.type = "aborted"
  /\ result.totalAttempts = 0
  /\ taskCalls = 0
  /\ breaker.state = "open"
  /\ breaker.failureCount = 2


\* C35: with halfOpenRequests >= 1 a half-open breaker cannot reject for
\* ever: once every admitted call has completed, a half-open breaker still
\* has a probe to hand out, so that the next call is admitted.
C35_HalfOpenAdmitsAgain ==
  (/\ config.breakerConfig.halfOpenRequests >= 1
   /\ suspended = EmptyBag
   /\ breaker.state = "half-open")
    => canExecute(breaker, config.breakerConfig, now).allowed


\* C36: under any interleaving of run calls on one engine the pairs passed
\* to onCircuitStateChange form a chain that starts at 'closed': each from
\* is the to reported before it.
C36_ReportsFormChain == reported.chained


\* the outcome of a call admitted as a half-open probe is recorded in this
\* step
ProbeRecorded ==
  \E c \in BagToSet(suspended) :
    /\ c.pc = "executing"
    /\ c.probe
    /\ CopiesIn(c, suspended') = CopiesIn(c, suspended) - 1

\* C37: while the breaker is half-open its state is changed only by the
\* outcome of a call admitted as a half-open probe; the late outcome of a
\* call admitted while the breaker was closed neither closes nor reopens it.
C37_OnlyProbesLeaveHalfOpen ==
  [][ (breaker.state = "half-open" /\ breaker'.state # "half-open")
        => ProbeRecorded ]_vars


\* C39: in every breaker state reachable through admission, recordSuccess
\* and recordFailure (failureThreshold >= 1): halfOpenCount is at most
\* halfOpenRequests; halfOpenCount is 0 unless the state is half-open; a
\* closed breaker has failureCount below failureThreshold; an open breaker
\* has nextAttemptTime set.
C39_BreakerStateInvariant ==
  config.breakerConfig.failureThreshold >= 1 =>
    /\ breaker.halfOpenCount <= config.breakerConfig.halfOpenRequests
    /\ breaker.state # "half-open" => breaker.halfOpenCount = 0
    /\ breaker.state = "closed" =>
         breaker.failureCount < config.breakerConfig.failureThreshold
    /\ breaker.state = "open" => breaker.nextAttemptTime # NoTime

\* C39 witness: with two probes allowed, the breaker went through closed
\* and open, both probes have been admitted, and the failure of one of them
\* has reopened it: the probe count is back to 0 and the next attempt time
\* is set.
C39_Witness ==
  /\ config.breakerConfig.halfOpenRequests = 2
  /\ calls = 3
  /\ breaker.state = "open"
  /\ breaker.failureCount = 2
  /\ breaker.halfOpenCount = 0
  /\ breaker.nextAttemptTime = now + config.breakerConfig.resetTimeout
  /\ \E c \in BagToSet(suspended) : c.pc = "executing" /\ c.probe


\* C38: in a bounded-concurrency batch every task index is passed to run
\* exactly once, by one worker or by the post-pass, under every interleaving
\* of the workers and wherever the caller's signal fires: no index is ever
\* passed twice, and when all() returns none has been left out.
C38_EachIndexRunOnce ==
  config.concurrency # Infinity =>
    /\ \A i \in Indices : runs[i] <= 1
    /\ batch.phase = "done" => \A i \in Indices : runs[i] = 1

\* C38 witness: three tasks on two workers; the signal fired while index 2
\* was still untaken, the workers left their loops, the post-pass passed
\* index 2 to run, and all() has returned with every index run once.
C38_Witness ==
  /\ batch.phase = "done"
  /\ config.concurrency = 2
  /\ config.tasks = 3
  /\ untaken.fired
  /\ untaken.indices = {2}
  /\ \A w \in DOMAIN workers : workers[w].current # 2
  /\ \A i \in Indices : runs[i] = 1


====
